---- MODULE Spec2Model ----
(***************************************************************************)
(* A model of the RiteVM interpreter of src/src/vm.c: the operand stack,   *)
(* the callinfo (frame) stack, the rescue and ensure stacks, the exception *)
(* slot and the nested activations of mrb_run.                             *)
(*                                                                         *)
(* Conventions.  Pointers into the operand stack are offsets from stbase   *)
(* (slot o is stk[o+1]); frame k (cibase + k) is cis[k+1]; rescue[i] and   *)
(* ensure[i] are rescue[i+1] and ensure[i+1].  Heap objects (procs, envs,  *)
(* arrays, exceptions) are numbered from 1 and 0 is the NULL pointer.  A   *)
(* code pointer is [ir, off]: instruction off (from 1) of irep ir.         *)
(***************************************************************************)
EXTENDS Integers, Sequences, FiniteSets, TLC

\* ------------------------------------------------------------------------
\* Program constants
\* ------------------------------------------------------------------------
STACK_INIT_SIZE == 128
CALLINFO_INIT_SIZE == 32
CALL_MAXARGS == 127
OP_R_NORMAL == 0
OP_R_BREAK == 1
OP_R_RETURN == 2
\* the flags in operand c of OP_LAMBDA
OP_L_STRICT == 1
OP_L_CAPTURE == 2

\* ------------------------------------------------------------------------
\* Bounds of the model
\* ------------------------------------------------------------------------
\* largest A operand of the SEND of the top-level programs
MaxA == 2
\* largest number of arguments passed to a method that starts with ENTER
MaxArgc == 3
\* largest m1 (required prefix) of the ENTER descriptors
MaxM1 == 2
\* largest operand of LOADI in the [LOADI; RETURN] programs
MaxImm == 2
\* largest number of arguments a native function passes to funcall or yield
MaxCallArgc == 1

\* ------------------------------------------------------------------------
\* Values (mrb_value): a type tag and a payload
\* ------------------------------------------------------------------------
Nil == [tt |-> "false", v |-> 0]
FixV(n) == [tt |-> "fixnum", v |-> n]
SymV(s) == [tt |-> "symbol", v |-> s]
ExcV(k) == [tt |-> "exception", v |-> k]
ProcV(p) == [tt |-> "proc", v |-> p]
AryV(a) == [tt |-> "array", v |-> a]
\* a generic object; object 1 is the top-level self of the host
ObjV(k) == [tt |-> "object", v |-> k]
MainV == ObjV(1)
\* the content of memory that was never written (malloc, realloc)
JunkV == [tt |-> "junk", v |-> 0]
TrueV == [tt |-> "true", v |-> 1]
FalseV == [tt |-> "false", v |-> 1]
\* mrb_test
mrb_test(v) == v.tt # "false"
\* the NULL object pointer (mrb->exc == 0)
NullObj == [tt |-> "null", v |-> 0]
HeapTypes == {"exception", "proc", "array", "object"}

\* mrb_object(v): the pointer member of the value's union
mrb_object(v) ==
  IF v.tt \in HeapTypes THEN v
  ELSE IF v.v = 0 THEN NullObj
  ELSE [tt |-> "wild", v |-> v.v]

\* mrb_int is a 32-bit int: n is representable
InInt(n) == n >= -2147483647 - 1 /\ n <= 2147483647

Max(x, y) == IF x >= y THEN x ELSE y

\* ------------------------------------------------------------------------
\* Instructions and ireps
\* ------------------------------------------------------------------------
I(op, a, b, c) == [op |-> op, a |-> a, b |-> b, c |-> c]

\* MKOP of OP_ENTER: Ax packs m1:5 o:5 r:1 m2:5 k:5 kd:1 b:1
MkENTER(m1, o, r, m2) ==
  I("ENTER", m1 * 262144 + o * 8192 + r * 4096 + m2 * 128, 0, 0)

Irep(idx, nregs, nlocals, iseq, syms, pool) ==
  [idx |-> idx, nregs |-> nregs, nlocals |-> nlocals, iseq |-> iseq,
   syms |-> syms, pool |-> pool]

\* interned symbols (mrb_sym), numbered from 1
Sym ==
  [method_missing |-> 1, plain |-> 2, resc |-> 3, boom |-> 4, nest |-> 5,
   ens |-> 6, ens1 |-> 7, tail |-> 8, rec |-> 9, args |-> 10, nat |-> 11,
   catch |-> 12, call |-> 13, mk |-> 14, none |-> 15, plus |-> 16,
   minus |-> 17, eq |-> 18, throw |-> 19, outer |-> 20, capraise |-> 21,
   mkp |-> 22, ensboom |-> 23, ensself |-> 24, tailnat |-> 25,
   viatail |-> 26, wide |-> 27, retwide |-> 28, epopwide |-> 29,
   brk |-> 30, ret |-> 31, ens2pop |-> 32, ens2ret |-> 33,
   tailkeep |-> 34, keep |-> 35]

\* every irep's symbol table lists all symbols: Sym(B) is symbol B
AllSyms == [s \in 1..35 |-> s]

\* the irep table (mrb->irep) below the top-level irep:
\*   2,3 ensure bodies of the top-level irep    4 plain   5 resc   6 boom
\*   7 nest   8 ens (9,10 its ensure bodies)    11 ens1 (12 its body)
\*   13 tail  14 rec   15 args   16 catch   17 call   18 mk (19 its lambda)
\*   20 throw   21 outer (22 its lambda)   23 capraise (24 its lambda)
\*   25 mkp (26 its lambda)   27 ensboom (28 its ensure body)
\*   29 ensself (30 its ensure body)
Body(idx, imm) ==
  Irep(idx, 3, 2, <<I("LOADI", 1, imm, 0), I("RETURN", 1, OP_R_NORMAL, 0)>>,
       AllSyms, <<>>)

IrepPlain ==
  Irep(4, 3, 2, <<I("LOADI", 1, 9, 0), I("RETURN", 1, OP_R_NORMAL, 0)>>,
       AllSyms, <<>>)

\* a method that raises under two nested handlers of its own, rescues the
\* exception in the inner one and returns it
IrepResc ==
  Irep(5, 4, 2,
       <<I("ONERR", 0, 5, 0), I("ONERR", 0, 2, 0), I("ERR", 0, 0, 0),
         I("RESCUE", 1, 0, 0), I("RETURN", 1, OP_R_NORMAL, 0),
         I("RESCUE", 2, 0, 0), I("RETURN", 2, OP_R_NORMAL, 0)>>,
       AllSyms, <<FixV(0)>>)

IrepBoom == Irep(6, 3, 2, <<I("ERR", 0, 0, 0)>>, AllSyms, <<FixV(0)>>)

IrepNest ==
  Irep(7, 4, 2,
       <<I("LOADSELF", 1, 0, 0), I("LOADNIL", 2, 0, 0),
         I("SEND", 1, Sym.boom, 0), I("RETURN", 1, OP_R_NORMAL, 0)>>,
       AllSyms, <<>>)

IrepEns ==
  Irep(8, 3, 2,
       <<I("EPUSH", 0, 1, 0), I("EPUSH", 0, 2, 0), I("EPOP", 2, 0, 0),
         I("LOADI", 1, 5, 0), I("RETURN", 1, OP_R_NORMAL, 0)>>,
       AllSyms, <<>>)

IrepEns1 ==
  Irep(11, 3, 2,
       <<I("EPUSH", 0, 1, 0), I("LOADI", 1, 6, 0),
         I("RETURN", 1, OP_R_NORMAL, 0)>>,
       AllSyms, <<>>)

IrepTail ==
  Irep(13, 4, 2,
       <<I("LOADSELF", 1, 0, 0), I("LOADNIL", 2, 0, 0),
         I("TAILCALL", 1, Sym.plain, 0)>>,
       AllSyms, <<>>)

\* def rec(n) = (n == 0) ? 77 : rec(n - 1), the recursive call a TAILCALL
IrepRec ==
  Irep(14, 6, 2,
       <<I("MOVE", 2, 1, 0), I("LOADI", 3, 0, 0), I("EQ", 2, Sym.eq, 1),
         I("JMPIF", 2, 6, 0), I("LOADSELF", 2, 0, 0), I("MOVE", 3, 1, 0),
         I("SUBI", 3, Sym.minus, 1), I("LOADNIL", 4, 0, 0),
         I("TAILCALL", 2, Sym.rec, 1), I("LOADI", 1, 77, 0),
         I("RETURN", 1, OP_R_NORMAL, 0)>>,
       AllSyms, <<>>)

\* a method whose first instruction is ENTER; the o default-initialiser
\* slots and the instruction after them follow
IrepArgs(m1, o, r, m2) ==
  Irep(15, m1 + o + r + m2 + 4, m1 + o + r + m2 + 2,
       <<MkENTER(m1, o, r, m2)>> \o [k \in 1..o |-> I("NOP", 0, 0, 0)]
         \o <<I("NOP", 0, 0, 0), I("RETURN", 1, OP_R_NORMAL, 0)>>,
       AllSyms, <<>>)

\* a method that calls a raising method under a rescue handler of its own
IrepCatch ==
  Irep(16, 4, 2,
       <<I("ONERR", 0, 6, 0), I("LOADSELF", 1, 0, 0), I("LOADNIL", 2, 0, 0),
         I("SEND", 1, Sym.boom, 0), I("POPERR", 1, 0, 0), I("JMP", 0, 2, 0),
         I("RESCUE", 1, 0, 0), I("RETURN", 1, OP_R_NORMAL, 0)>>,
       AllSyms, <<>>)

\* Proc#call: the method whose body is the single instruction OP_CALL
IrepCall == Irep(17, 2, 2, <<I("CALL", 0, 0, 0)>>, AllSyms, <<>>)

\* a method that returns a closure; the closure's body returns from the
\* method that created it (RETURN with mode return)
IrepMk ==
  Irep(18, 3, 2,
       <<I("LAMBDA", 1, 1, OP_L_CAPTURE), I("RETURN", 1, OP_R_NORMAL, 0)>>,
       AllSyms, <<>>)

IrepMkBody ==
  Irep(19, 3, 2, <<I("LOADI", 1, 7, 0), I("RETURN", 1, OP_R_RETURN, 0)>>,
       AllSyms, <<>>)

\* a method that raises the host's exception object with OP_RAISE and has
\* no handler of its own
IrepThrow ==
  Irep(20, 3, 2, <<I("LOADL", 1, 0, 0), I("RAISE", 1, 0, 0)>>, AllSyms,
       <<ExcV(1)>>)

\* def outer; x = 7; lambda { x }; end: the frame binds its local R(1) and
\* returns a closure over its environment
IrepOuter ==
  Irep(21, 4, 2,
       <<I("LOADI", 1, 7, 0), I("LAMBDA", 2, 1, OP_L_CAPTURE),
         I("RETURN", 2, OP_R_NORMAL, 0)>>, AllSyms, <<>>)

\* the closure's body: it writes its own R(1), then reads upvalue 1 of the
\* environment it was created in
IrepInner ==
  Irep(22, 4, 2,
       <<I("LOADI", 1, 0, 0), I("GETUPVAR", 2, 1, 0),
         I("RETURN", 2, OP_R_NORMAL, 0)>>, AllSyms, <<>>)

\* a method that creates a closure over its frame and then raises
IrepCapRaise ==
  Irep(23, 3, 2, <<I("LAMBDA", 1, 1, OP_L_CAPTURE), I("ERR", 0, 0, 0)>>,
       AllSyms, <<FixV(0)>>)

\* a method that returns a procedure made without the capture flag
IrepMkp ==
  Irep(25, 3, 2,
       <<I("LAMBDA", 1, 1, 0), I("RETURN", 1, OP_R_NORMAL, 0)>>,
       AllSyms, <<>>)

\* a method that registers an ensure procedure and then raises
IrepEnsBoom ==
  Irep(27, 3, 2, <<I("EPUSH", 0, 1, 0), I("ERR", 0, 0, 0)>>, AllSyms,
       <<FixV(0)>>)

\* a method whose ensure procedure (irep 30) reads self
IrepEnsSelf ==
  Irep(29, 3, 2,
       <<I("EPUSH", 0, 1, 0), I("EPOP", 1, 0, 0), I("LOADI", 1, 6, 0),
         I("RETURN", 1, OP_R_NORMAL, 0)>>, AllSyms, <<>>)

IrepSelfBody ==
  Irep(30, 3, 2,
       <<I("LOADSELF", 1, 0, 0), I("RETURN", 1, OP_R_NORMAL, 0)>>,
       AllSyms, <<>>)

\* a method that ends with a tail call of the native method nat
IrepTailNat ==
  Irep(31, 4, 2,
       <<I("LOADSELF", 1, 0, 0), I("LOADNIL", 2, 0, 0),
         I("TAILCALL", 1, Sym.nat, 0)>>,
       AllSyms, <<>>)

\* a method that calls tailnat and returns what it gets
IrepViaTail ==
  Irep(32, 4, 2,
       <<I("LOADSELF", 1, 0, 0), I("LOADNIL", 2, 0, 0),
         I("SEND", 1, Sym.tailnat, 0), I("RETURN", 1, OP_R_NORMAL, 0)>>,
       AllSyms, <<>>)

\* a method that calls a missing method with CALL_MAXARGS - 1 inline
\* arguments, the first 21 and the last 22
IrepWide ==
  Irep(33, CALL_MAXARGS + 5, 2,
       <<I("LOADSELF", 1, 0, 0), I("LOADI", 2, 21, 0),
         I("LOADI", CALL_MAXARGS, 22, 0),
         I("LOADNIL", CALL_MAXARGS + 1, 0, 0),
         I("SEND", 1, Sym.none, CALL_MAXARGS - 1),
         I("RETURN", 1, OP_R_NORMAL, 0)>>,
       AllSyms, <<>>)

\* methods whose ensure procedure (irep 36) calls wide, which needs a
\* larger operand stack: the procedure is run by RETURN, or by EPOP
IrepRetWide ==
  Irep(34, 3, 2,
       <<I("EPUSH", 0, 2, 0), I("LOADI", 1, 6, 0),
         I("RETURN", 1, OP_R_NORMAL, 0)>>, AllSyms, <<>>)

IrepEpopWide ==
  Irep(35, 3, 2,
       <<I("EPUSH", 0, 1, 0), I("EPOP", 1, 0, 0), I("LOADI", 1, 6, 0),
         I("RETURN", 1, OP_R_NORMAL, 0)>>, AllSyms, <<>>)

IrepWideBody ==
  Irep(36, 4, 2,
       <<I("LOADSELF", 1, 0, 0), I("LOADNIL", 2, 0, 0),
         I("SEND", 1, Sym.wide, 0), I("RETURN", 1, OP_R_NORMAL, 0)>>,
       AllSyms, <<>>)

\* methods that make a closure and call it at once; the closure leaves
\* by RETURN with mode break (irep 39), or with mode return (irep 40)
IrepBrk ==
  Irep(37, 4, 2,
       <<I("LAMBDA", 1, 2, OP_L_CAPTURE), I("LOADNIL", 2, 0, 0),
         I("SEND", 1, Sym.call, 0), I("LOADI", 1, 8, 0),
         I("RETURN", 1, OP_R_NORMAL, 0)>>, AllSyms, <<>>)

IrepRet ==
  Irep(38, 4, 2,
       <<I("LAMBDA", 1, 2, OP_L_CAPTURE), I("LOADNIL", 2, 0, 0),
         I("SEND", 1, Sym.call, 0), I("LOADI", 1, 8, 0),
         I("RETURN", 1, OP_R_NORMAL, 0)>>, AllSyms, <<>>)

IrepBrkBody ==
  Irep(39, 3, 2, <<I("LOADI", 1, 7, 0), I("RETURN", 1, OP_R_BREAK, 0)>>,
       AllSyms, <<>>)

IrepRetBody ==
  Irep(40, 3, 2, <<I("LOADI", 1, 7, 0), I("RETURN", 1, OP_R_RETURN, 0)>>,
       AllSyms, <<>>)

\* methods that register two ensure procedures, irep 44 first and then
\* irep 43, whose body itself registers an ensure procedure; the two are
\* run by EPOP 2, or by RETURN
IrepEns2Pop ==
  Irep(41, 3, 2,
       <<I("EPUSH", 0, 3, 0), I("EPUSH", 0, 2, 0), I("EPOP", 2, 0, 0),
         I("LOADI", 1, 6, 0), I("RETURN", 1, OP_R_NORMAL, 0)>>,
       AllSyms, <<>>)

IrepEns2Ret ==
  Irep(42, 3, 2,
       <<I("EPUSH", 0, 2, 0), I("EPUSH", 0, 1, 0), I("LOADI", 1, 6, 0),
         I("RETURN", 1, OP_R_NORMAL, 0)>>, AllSyms, <<>>)

IrepPushBody ==
  Irep(43, 3, 2,
       <<I("EPUSH", 0, 1, 0), I("LOADI", 1, 9, 0),
         I("RETURN", 1, OP_R_NORMAL, 0)>>, AllSyms, <<>>)

\* a method with 3 registers that tail-calls keep, and keep, which has 12
\* registers, holds a value in R(10) and runs an ensure procedure (irep 47)
IrepTailKeep ==
  Irep(45, 3, 2,
       <<I("LOADSELF", 1, 0, 0), I("LOADNIL", 2, 0, 0),
         I("TAILCALL", 1, Sym.keep, 0)>>, AllSyms, <<>>)

IrepKeep ==
  Irep(46, 12, 2,
       <<I("LOADI", 10, 42, 0), I("EPUSH", 0, 1, 0), I("EPOP", 1, 0, 0),
         I("RETURN", 10, OP_R_NORMAL, 0)>>, AllSyms, <<>>)

\* the ireps 2.. of every image; d is the ENTER descriptor of irep 15
Library(d) ==
  <<Body(2, 21), Body(3, 22), IrepPlain, IrepResc, IrepBoom, IrepNest,
    IrepEns, Body(9, 23), Body(10, 24), IrepEns1, Body(12, 25), IrepTail,
    IrepRec, IrepArgs(d.m1, d.o, d.r, d.m2), IrepCatch, IrepCall, IrepMk,
    IrepMkBody, IrepThrow, IrepOuter, IrepInner, IrepCapRaise, Body(24, 26),
    IrepMkp, Body(26, 27), IrepEnsBoom, Body(28, 28), IrepEnsSelf,
    IrepSelfBody, IrepTailNat, IrepViaTail, IrepWide, IrepRetWide,
    IrepEpopWide, IrepWideBody, IrepBrk, IrepRet, IrepBrkBody, IrepRetBody,
    IrepEns2Pop, IrepEns2Ret, IrepPushBody, Body(44, 29), IrepTailKeep,
    IrepKeep, Body(47, 30)>>

\* procedures that exist before the run: the methods of the method table
MkProc(cfunc, irep, strict, env) ==
  [cfunc |-> cfunc, irep |-> irep, strict |-> strict, env |-> env,
   target_class |-> 1]

\* proc ids: 1 method_missing (native), 2 plain, 3 resc, 4 boom, 5 nest,
\* 6 ens, 7 ens1, 8 tail, 9 rec, 10 args, 11 nat (native), 12 catch,
\* 13 call, 14 mk, 15 throw, 16 outer, 17 capraise, 18 mkp, 19 ensboom,
\* 20 ensself
InitProcs(strict) ==
  <<MkProc(TRUE, 0, FALSE, 0), MkProc(FALSE, 4, TRUE, 0),
    MkProc(FALSE, 5, TRUE, 0), MkProc(FALSE, 6, TRUE, 0),
    MkProc(FALSE, 7, TRUE, 0), MkProc(FALSE, 8, TRUE, 0),
    MkProc(FALSE, 11, TRUE, 0), MkProc(FALSE, 13, TRUE, 0),
    MkProc(FALSE, 14, TRUE, 0), MkProc(FALSE, 15, strict, 0),
    MkProc(TRUE, 0, FALSE, 0), MkProc(FALSE, 16, TRUE, 0),
    MkProc(FALSE, 17, TRUE, 0), MkProc(FALSE, 18, TRUE, 0),
    MkProc(FALSE, 20, TRUE, 0), MkProc(FALSE, 21, TRUE, 0),
    MkProc(FALSE, 23, TRUE, 0), MkProc(FALSE, 25, TRUE, 0),
    MkProc(FALSE, 27, TRUE, 0), MkProc(FALSE, 29, TRUE, 0),
    MkProc(FALSE, 31, TRUE, 0), MkProc(FALSE, 32, TRUE, 0),
    MkProc(FALSE, 33, TRUE, 0), MkProc(FALSE, 34, TRUE, 0),
    MkProc(FALSE, 35, TRUE, 0), MkProc(FALSE, 37, TRUE, 0),
    MkProc(FALSE, 38, TRUE, 0), MkProc(FALSE, 41, TRUE, 0),
    MkProc(FALSE, 42, TRUE, 0), MkProc(FALSE, 45, TRUE, 0),
    MkProc(FALSE, 46, TRUE, 0)>>

\* mrb_method_search_vm: the proc bound to a symbol, 0 when there is none
\* (the class walk is the host's; every receiver sees the same table)
mrb_method_search_vm(mid) ==
  IF mid \in 1..14 THEN mid
  ELSE IF mid \in Sym.throw..Sym.keep THEN mid - 4
  ELSE 0

\* ------------------------------------------------------------------------
\* Top-level programs (irep 1), run by the host with mrb_run
\* ------------------------------------------------------------------------
TopIrep(nregs, iseq, pool) == Irep(1, nregs, 2, iseq, AllSyms, pool)

\* LOADI r1..rn with 10+k
Loads(n) == [k \in 1..n |-> I("LOADI", k, 10 + k, 0)]

TopLoadi(x) ==
  TopIrep(3, <<I("LOADI", 1, x, 0), I("RETURN", 1, OP_R_NORMAL, 0)>>, <<>>)

TopAdd ==
  TopIrep(4, <<I("LOADI", 1, 2, 0), I("LOADI", 2, 3, 0), I("ADD", 1, Sym.plus, 1),
           I("RETURN", 1, OP_R_NORMAL, 0)>>, <<>>)

\* the exception object of the pool stands for the preloaded r1
TopRescue ==
  TopIrep(4, <<I("LOADL", 1, 0, 0), I("ONERR", 0, 4, 0), I("RAISE", 1, 0, 0),
           I("LOADI", 2, 42, 0), I("JMP", 0, 2, 0), I("RESCUE", 2, 0, 0),
           I("RETURN", 2, OP_R_NORMAL, 0)>>, <<ExcV(1)>>)

\* the top-level program reads the self the host passed
TopSelf ==
  TopIrep(3, <<I("LOADSELF", 1, 0, 0), I("STOP", 0, 0, 0)>>, <<>>)

TopEnsure ==
  TopIrep(3, <<I("EPUSH", 0, 1, 0), I("EPUSH", 0, 2, 0), I("EPOP", 2, 0, 0),
           I("RETURN", 0, OP_R_NORMAL, 0)>>, <<>>)

\* R(A) := call(R(A), sym, R(A+1) .. R(A+C)), the block slot nil
TopSend(a, sym, c) ==
  TopIrep(a + c + 4,
      Loads(a + c) \o <<I("LOADNIL", a + c + 1, 0, 0), I("SEND", a, sym, c),
                        I("STOP", 0, 0, 0)>>, <<>>)

\* the same call under a rescue handler of the top-level frame
TopGuard(a, sym) ==
  TopIrep(a + 4,
      Loads(a) \o <<I("LOADNIL", a + 1, 0, 0), I("ONERR", 0, 4, 0),
                    I("SEND", a, sym, 0), I("POPERR", 1, 0, 0),
                    I("JMP", 0, 2, 0), I("RESCUE", 1, 0, 0),
                    I("STOP", 0, 0, 0)>>, <<>>)

\* rec(n)
TopRec(a, n) ==
  TopIrep(a + 5,
      Loads(a) \o <<I("LOADI", a + 1, n, 0), I("LOADNIL", a + 2, 0, 0),
                    I("SEND", a, Sym.rec, 1), I("STOP", 0, 0, 0)>>, <<>>)

\* args(*[11, .., 10+n]): the arguments packed in an array, C = 127
TopPacked(a, n) ==
  TopIrep(a + n + 4,
      Loads(a) \o [k \in 1..n |-> I("LOADI", a + k, 10 + k, 0)]
        \o <<I("ARRAY", a + 1, a + 1, n), I("LOADNIL", a + 2, 0, 0),
             I("SEND", a, Sym.args, CALL_MAXARGS), I("STOP", 0, 0, 0)>>,
      <<>>)

\* none(*[11, .., 10+n]): packed arguments for a method that is missing
TopPackedMiss(a, n) ==
  TopIrep(a + n + 4,
      Loads(a) \o [k \in 1..n |-> I("LOADI", a + k, 10 + k, 0)]
        \o <<I("ARRAY", a + 1, a + 1, n), I("LOADNIL", a + 2, 0, 0),
             I("SEND", a, Sym.none, CALL_MAXARGS), I("STOP", 0, 0, 0)>>,
      <<>>)

\* a closure made by the top-level program itself and called at once; its
\* body is irep 1 + b
TopBlockCall(a, b) ==
  TopIrep(a + 4,
      Loads(a) \o <<I("LAMBDA", a, b, OP_L_CAPTURE), I("LOADNIL", a + 1, 0, 0),
                    I("SEND", a, Sym.call, 0), I("STOP", 0, 0, 0)>>,
      <<>>)

\* args([11, .., 10+n]) { }: one array argument and a block
TopSplat(a, n) ==
  TopIrep(a + n + 4,
      Loads(a) \o [k \in 1..n |-> I("LOADI", a + k, 10 + k, 0)]
        \o <<I("ARRAY", a + 1, a + 1, n), I("LAMBDA", a + 2, 3, 0),
             I("SEND", a, Sym.args, 1), I("STOP", 0, 0, 0)>>,
      <<>>)

\* mk.call: the closure is called after the method that made it returned
TopDead(a) ==
  TopIrep(a + 4,
      Loads(a) \o <<I("LOADNIL", a + 1, 0, 0), I("SEND", a, Sym.mk, 0),
                    I("LOADNIL", a + 1, 0, 0), I("SEND", a, Sym.call, 0),
                    I("STOP", 0, 0, 0)>>, <<>>)

\* sym.call: the procedure a method returned is called after the method
\* returned
TopCallOf(a, sym) ==
  TopIrep(a + 4,
      Loads(a) \o <<I("LOADNIL", a + 1, 0, 0), I("SEND", a, sym, 0),
                    I("LOADNIL", a + 1, 0, 0), I("SEND", a, Sym.call, 0),
                    I("STOP", 0, 0, 0)>>, <<>>)

\* a call from the last registers of a frame that fills the initial operand
\* stack: the receiver is R(126), the block R(127)
TopDeep(sym) ==
  TopIrep(STACK_INIT_SIZE,
      <<I("LOADSELF", STACK_INIT_SIZE - 2, 0, 0),
        I("LOADNIL", STACK_INIT_SIZE - 1, 0, 0),
        I("SEND", STACK_INIT_SIZE - 2, sym, 0), I("STOP", 0, 0, 0)>>, <<>>)

\* a call from R(a) of a frame with a + 2 registers
TopHigh(a, sym) ==
  TopIrep(a + 2,
      <<I("LOADSELF", a, 0, 0), I("LOADNIL", a + 1, 0, 0),
        I("SEND", a, sym, 0), I("STOP", 0, 0, 0)>>, <<>>)

\* R(a) := blockexec(R(a), irep 46): the body keep is run by EXEC
TopExec(a) ==
  TopIrep(a + 3,
      <<I("LOADSELF", a, 0, 0), I("EXEC", a, 45, 0), I("STOP", 0, 0, 0)>>,
      <<>>)

\* a top-level irep with one register more than the initial operand stack
TopBig ==
  TopIrep(STACK_INIT_SIZE + 1,
      <<I("LOADI", STACK_INIT_SIZE, 1, 0), I("STOP", 0, 0, 0)>>, <<>>)

\* nat { 9 }: a native method is called with a block (irep 4), made with
\* the flags c
TopYield(a, c) ==
  TopIrep(a + 4,
      Loads(a) \o <<I("LAMBDA", a + 1, 3, c), I("SEND", a, Sym.nat, 0),
                    I("STOP", 0, 0, 0)>>, <<>>)

Descriptors ==
  [m1 : 0..MaxM1, o : {0, 1}, r : {0, 1}, m2 : {0, 1}]

NoDesc == [m1 |-> 0, o |-> 0, r |-> 0, m2 |-> 0]

Image(top, d, strict) == [top |-> top, d |-> d, strict |-> strict]

Methods ==
  {Sym.plain, Sym.resc, Sym.boom, Sym.nest, Sym.ens, Sym.ens1, Sym.tail,
   Sym.nat, Sym.catch, Sym.mk, Sym.none, Sym.throw, Sym.outer,
   Sym.capraise, Sym.mkp, Sym.ensboom, Sym.ensself, Sym.tailnat,
   Sym.viatail, Sym.wide, Sym.retwide, Sym.epopwide, Sym.brk, Sym.ret,
   Sym.ens2pop, Sym.ens2ret, Sym.tailkeep, Sym.keep}

\* what the host may load and run
Images ==
  {Image(TopLoadi(x), NoDesc, TRUE) : x \in -1..MaxImm}
    \cup {Image(TopAdd, NoDesc, TRUE), Image(TopRescue, NoDesc, TRUE),
          Image(TopEnsure, NoDesc, TRUE), Image(TopSelf, NoDesc, TRUE)}
    \cup {Image(TopSend(a, s, 0), NoDesc, TRUE) : a \in 0..MaxA, s \in Methods}
    \cup {Image(TopGuard(a, s), NoDesc, TRUE) :
            a \in 0..MaxA, s \in {Sym.boom, Sym.nest, Sym.nat, Sym.plain, Sym.throw,
                                  Sym.capraise, Sym.ensboom}}
    \cup {Image(TopRec(a, n), NoDesc, TRUE) : a \in 0..1, n \in 0..2}
    \cup {Image(TopDead(a), NoDesc, TRUE) : a \in 0..MaxA}
    \cup {Image(TopDeep(s), NoDesc, TRUE) : s \in {Sym.nat, Sym.plain}}
    \cup {Image(TopYield(a, c), NoDesc, TRUE) :
            a \in 0..MaxA, c \in {0, OP_L_CAPTURE}}
    \cup {Image(TopCallOf(a, s), NoDesc, TRUE) :
            a \in 0..MaxA, s \in {Sym.outer, Sym.mkp}}
    \cup {Image(TopSend(1, Sym.args, c), d, st) :
            c \in 0..MaxArgc, d \in Descriptors, st \in BOOLEAN}
    \cup {Image(TopPacked(1, c), d, st) :
            c \in 0..MaxArgc, d \in Descriptors, st \in BOOLEAN}
    \cup {Image(TopGuard(1, Sym.args), d, TRUE) : d \in Descriptors}
    \cup {Image(TopSend(1, Sym.none, c), NoDesc, TRUE) : c \in 1..MaxArgc}
    \cup {Image(TopPackedMiss(1, n), NoDesc, TRUE) : n \in 0..MaxArgc}
    \cup {Image(TopBlockCall(a, b), NoDesc, TRUE) :
            a \in 0..MaxA, b \in {38, 39}}
    \cup {Image(TopSplat(1, n), d, FALSE) :
            n \in 0..MaxArgc, d \in Descriptors}
    \cup {Image(TopHigh(STACK_INIT_SIZE - 5, s), NoDesc, TRUE) :
            s \in {Sym.plain, Sym.ens1, Sym.ensself, Sym.tail}}
    \cup {Image(TopBig, NoDesc, TRUE)}
    \cup {Image(TopExec(a), NoDesc, TRUE) : a \in 0..MaxA}

\* ------------------------------------------------------------------------
\* State
\* ------------------------------------------------------------------------
VARIABLES
  irep_tab,  \* mrb->irep: the table of ireps
  stk,       \* the operand stack [stbase, stend)
  stack,     \* mrb->stack - mrb->stbase
  stgen,     \* which allocation stbase is (0: mrb->stack == NULL)
  cis,       \* the callinfo array, as far as it was ever written
  ci,        \* mrb->ci - mrb->cibase
  cisize,    \* mrb->ciend - mrb->cibase
  rescue,    \* mrb->rescue, as far as it was ever written
  rsize,     \* mrb->rsize
  ensure,    \* mrb->ensure, as far as it was ever written
  esize,     \* mrb->esize
  exc,       \* mrb->exc
  procs,     \* heap: struct RProc
  envs,      \* heap: struct REnv
  arys,      \* heap: struct RArray
  excs,      \* heap: exception objects
  runs,      \* the activations of mrb_run, innermost last: their locals
  status,    \* "fresh", "running", "returned", "undefined", "crashed"
  retval,    \* what the outermost mrb_run returned to the host
  log,       \* history: the ensure procedures started and finished
  last       \* history: what the last completed opcode did

vars ==
  <<irep_tab, stk, stack, stgen, cis, ci, cisize, rescue, rsize, ensure,
    esize, exc, procs, envs, arys, excs, runs, status, retval, log, last>>

St ==
  [irep_tab |-> irep_tab, stk |-> stk, stack |-> stack, stgen |-> stgen,
   cis |-> cis, ci |-> ci, cisize |-> cisize, rescue |-> rescue,
   rsize |-> rsize, ensure |-> ensure, esize |-> esize, exc |-> exc,
   procs |-> procs, envs |-> envs, arys |-> arys, excs |-> excs,
   runs |-> runs, status |-> status, retval |-> retval, log |-> log,
   last |-> last]

NullPC == [ir |-> 0, off |-> 0]

\* what SEND records of the caller when it enters a bytecode method
NoSnap ==
  [valid |-> FALSE, depth |-> 0, base |-> 0, pc |-> NullPC, a |-> 0,
   n |-> 0, lo |-> <<>>]

\* the frame stack_init clears with memset
ZeroFrame ==
  [mid |-> 0, proc |-> 0, stackidx |-> 0, nregs |-> 0, argc |-> 0,
   pc |-> NullPC, acc |-> 0, target_class |-> 0, ridx |-> 0, eidx |-> 0,
   env |-> 0, snap |-> NoSnap, self |-> NullObj, hbase |-> -1]

\* a frame of the array that was never written.  Its fields are
\* indeterminate; every path that pushes a frame writes the fields it later
\* reads, except ci->pc of a frame entered with acc = -1, which RETURN loads
\* and then discards.
JunkFrame == ZeroFrame

NoEnter ==
  [valid |-> FALSE, packed |-> FALSE, m1 |-> 0, o |-> 0, r |-> 0, m2 |-> 0, count |-> 0, strict |-> FALSE,
   pc0 |-> NullPC, argc |-> 0, blk |-> NullObj, splat |-> FALSE]

NoIns == [op |-> "", a |-> 0, b |-> 0, c |-> 0]

\* history of a call of stack_extend: its arguments, the stack before and
\* after it, and whether it reallocated
NoExt ==
  [valid |-> FALSE, room |-> 0, keep |-> 0, grew |-> FALSE, off0 |-> 0,
   off |-> 0, old |-> <<>>, new |-> <<>>, inside |-> FALSE]

\* history of a call of mrb_funcall_with_block or mrb_yield_with_self: the
\* frame index and register base before the call and when it returned, the
\* value it returned and the value its callee returned
NoFc ==
  [valid |-> FALSE, op |-> "", ci0 |-> 0, stack0 |-> 0, ci1 |-> 0,
   stack1 |-> 0, val |-> Nil, ret |-> Nil, completed |-> FALSE,
   bytecode |-> FALSE]

\* history of a TAILCALL of a native function: what the function did and
\* returned, and the SEND that entered the frame of the TAILCALL
NoTc == [valid |-> FALSE, kind |-> "", v |-> Nil, snap |-> NoSnap]

\* history of a SEND whose method was missing: the operand C, the symbol,
\* the arguments and the block before the rewrite, and the mid, the argc
\* and the arguments and block of the frame that was entered
NoMm ==
  [valid |-> FALSE, c |-> 0, sym |-> Nil, orig |-> <<>>, mid |-> 0,
   argc |-> 0, seen |-> <<>>]

\* history of a RETURN with mode break or return by a procedure that has
\* an environment: the mode, the cioff of the environment, the value, and
\* the acc and pc of the frame the return has to pop last
NoNl ==
  [valid |-> FALSE, mode |-> 0, cioff |-> 0, v |-> Nil, acc |-> 0,
   pc |-> NullPC]

\* history: what the last opcode did, and what the state was when it began
NoLast ==
  [op |-> "", ins |-> NoIns, done |-> FALSE, ci0 |-> 0, stack0 |-> 0,
   depth0 |-> 0, pc0 |-> NullPC, exc0 |-> NullObj, eidx0 |-> 0,
   ens0 |-> <<>>, log0 |-> 0, raised |-> FALSE, rexc |-> NullObj,
   hk |-> -1, hpc |-> NullPC, hridx |-> 0, ended |-> FALSE, endval |-> Nil,
   endexc |-> NullObj, snap |-> NoSnap, retv |-> Nil, bytecode |-> FALSE,
   enter |-> NoEnter, uv |-> 0, ext |-> NoExt, fc |-> NoFc, callee |-> 0,
   hbase |-> -1, pend |-> {}, tc |-> NoTc, mm |-> NoMm,
   nl |-> NoNl]

\* the record with which opcode op begins in state t
LastOf(op, t) ==
  [NoLast EXCEPT !.op = op, !.done = TRUE, !.ci0 = t.ci, !.stack0 = t.stack,
                 !.depth0 = Len(t.runs), !.exc0 = t.exc,
                 !.eidx0 = t.cis[t.ci + 1].eidx, !.ens0 = t.ensure,
                 !.log0 = Len(t.log)]

\* ------------------------------------------------------------------------
\* Accessors
\* ------------------------------------------------------------------------
\* frame cibase[k]
Fr(t, k) == t.cis[k + 1]
\* *mrb->ci
CurFr(t) == t.cis[t.ci + 1]
\* the locals of the innermost mrb_run
Act(t) == t.runs[Len(t.runs)]
SetAct(t, r) == [t EXCEPT !.runs[Len(t.runs)] = r]
IrepOfProc(t, p) == t.irep_tab[t.procs[p].irep]
\* p is a procedure with an instruction sequence
Bytecode(t, p) == p \in 1..Len(t.procs) /\ ~t.procs[p].cfunc

\* behaviour the C standard leaves undefined was reached
Undef(t) == [t EXCEPT !.status = "undefined"]

\* regs[x] of the innermost mrb_run is a slot of the current allocation
RegOK(t, x) ==
  /\ Act(t).rgen = t.stgen
  /\ Act(t).regs + x >= 0
  /\ Act(t).regs + x < Len(t.stk)
RegsOK(t, xs) == \A x \in xs : RegOK(t, x)
\* mrb->stack[x]
SlotOK(t, x) == t.stack + x >= 0 /\ t.stack + x < Len(t.stk)

Reg(t, x) == t.stk[Act(t).regs + x + 1]
SetReg(t, x, v) == [t EXCEPT !.stk[Act(t).regs + x + 1] = v]
Slot(t, x) == t.stk[t.stack + x + 1]
SetSlot(t, x, v) == [t EXCEPT !.stk[t.stack + x + 1] = v]

\* the instruction at a code pointer
ValidPC(t, pc) ==
  /\ pc.ir \in 1..Len(t.irep_tab)
  /\ pc.off \in 1..Len(t.irep_tab[pc.ir].iseq)
Fetch(t) == t.irep_tab[Act(t).pc.ir].iseq[Act(t).pc.off]

\* NEXT: i = *++pc
NEXT(t) == SetAct(t, [Act(t) EXCEPT !.pc.off = @ + 1])

\* ------------------------------------------------------------------------
\* stack_init, stack_extend, cipush
\* ------------------------------------------------------------------------
stack_init(t) ==
  [t EXCEPT !.stk = [k \in 1..STACK_INIT_SIZE |-> Nil],
            !.stack = 0,
            !.stgen = 1,
            !.cis = <<[ZeroFrame EXCEPT !.target_class = 1]>>,
            !.ci = 0,
            !.cisize = CALLINFO_INIT_SIZE]

\* the size stack_extend reallocates to
GrownSize(size, room) == IF room <= size THEN size * 2 ELSE size + room

\* history: what stack_extend(room, keep) made of state t
ExtGhost(t, u, room, keep) ==
  [u EXCEPT !.last.ext =
     [valid |-> TRUE, room |-> room, keep |-> keep,
      grew |-> u.stgen # t.stgen, off0 |-> t.stack, off |-> u.stack,
      old |-> t.stk, new |-> u.stk, inside |-> u.status # "undefined"]]

stack_extend(t, room, keep) ==
  LET size == Len(t.stk)
      g == IF t.stack + room > size
           THEN [t EXCEPT !.stk = @ \o [k \in 1..(GrownSize(size, room) - size)
                                          |-> JunkV],
                          !.stgen = @ + 1]
           ELSE t
  IN  ExtGhost(t,
        IF room > keep
        THEN IF g.stack + keep < 0 \/ g.stack + room > Len(g.stk)
             THEN Undef(g)
             ELSE [g EXCEPT !.stk =
                     [k \in 1..Len(g.stk) |->
                        IF k - 1 >= g.stack + keep /\ k - 1 < g.stack + room
                        THEN Nil ELSE g.stk[k]]]
        ELSE g, room, keep)

\* mrb_checkstack(mrb, size)
mrb_checkstack(t, size) == stack_extend(t, size + 1, 1)

cipush(t) ==
  LET f == CurFr(t)
      k == t.ci + 1
      old == IF k + 1 <= Len(t.cis) THEN t.cis[k + 1] ELSE JunkFrame
      nf == [old EXCEPT !.nregs = f.nregs, !.eidx = f.eidx, !.ridx = f.ridx,
                        !.env = 0, !.snap = NoSnap, !.self = NullObj,
                        !.hbase = -1]
  IN  [t EXCEPT !.cisize = IF t.ci + 1 = t.cisize THEN t.ci * 2 ELSE @,
                !.ci = k,
                !.cis = IF k + 1 <= Len(t.cis)
                        THEN [@ EXCEPT ![k + 1] = nf]
                        ELSE Append(@, nf)]

\* ------------------------------------------------------------------------
\* mrb_run's entry, ecall, and the ways a run ends
\* ------------------------------------------------------------------------
\* mrb_run(mrb, proc, self) up to INIT_DISPATCH.  self is not stored in
\* the state; the frame's history records it.
mrb_run(t, p, self, via) ==
  LET t1 == IF t.stgen = 0 THEN stack_init(t) ELSE t
      ir == t1.procs[p].irep
      t2 == [t1 EXCEPT !.cis[t1.ci + 1].proc = p,
                       !.cis[t1.ci + 1].nregs = t1.irep_tab[ir].nregs + 2,
                       !.cis[t1.ci + 1].self = self]
  IN  [t2 EXCEPT !.runs =
         Append(@, [proc |-> p, entry |-> p, irep |-> ir,
                    pc |-> [ir |-> ir, off |-> 1], regs |-> t2.stack,
                    rgen |-> t2.stgen, via |-> via, n |-> 0, a |-> 0,
                    eidx |-> 0, acc |-> 0, v |-> Nil, g_last |-> NoLast,
                    fc |-> NoFc, eci |-> t2.ci])]

\* an entry of the history of ensure calls, run ends and raises, with the
\* current frame and the entry frame of the run at that moment
Event(ev, p, t) ==
  [ev |-> ev, p |-> p, val |-> Nil, exc |-> t.exc, host |-> FALSE,
   handler |-> FALSE, depth |-> Len(t.runs), ci |-> t.ci,
   eci |-> IF Len(t.runs) > 0 THEN t.runs[Len(t.runs)].eci ELSE 0]

\* ecall(mrb, i), called by EPOP (via = "epop") and by RETURN (via = "ret")
ecall(t, i, via) ==
  IF i < 0 \/ i >= Len(t.ensure) \/ ~Bytecode(t, t.ensure[i + 1])
  THEN Undef(t)
  ELSE LET p == t.ensure[i + 1]
           t1 == cipush(t)
           k == t1.ci
           f == [Fr(t1, k) EXCEPT !.stackidx = t.stack,
                                  !.mid = Fr(t1, k - 1).mid,
                                  !.acc = -1,
                                  !.argc = 0,
                                  !.proc = p,
                                  !.nregs = IrepOfProc(t, p).nregs,
                                  !.target_class = t.procs[p].target_class]
           t2 == [t1 EXCEPT !.cis[k + 1] = f,
                            !.stack = t.stack + Fr(t1, k - 1).nregs,
                            !.log = Append(@, Event("ecall", p, t)),
                            !.last.done = FALSE]
       IN  IF ~SlotOK(t, 0) THEN Undef(t2)
           ELSE mrb_run(t2, p, Slot(t, 0), via)

RECURSIVE EndRun(_, _), RetLoop(_), EpopLoop(_), CallReturned(_, _, _)

\* mrb_run returns v: to the host, into the loop that called ecall, or into
\* mrb_funcall_with_block or mrb_yield_with_self
EndRun(t, v) ==
  LET r == Act(t)
      t1 == [t EXCEPT !.runs = SubSeq(@, 1, Len(@) - 1),
                      !.log = Append(@, [Event("end", r.entry, t)
                                           EXCEPT !.val = v,
                                                  !.host = r.via = "host",
                                                  !.depth = @ - 1]),
                      !.last.ended = TRUE,
                      !.last.endval = v,
                      !.last.endexc = t.exc]
  IN  IF r.via = "host" THEN [t1 EXCEPT !.status = "returned", !.retval = v]
      ELSE IF r.via = "epop" THEN EpopLoop(t1)
      ELSE IF r.via = "call" THEN CallReturned(t1, v, r)
      ELSE RetLoop(t1)

\* a loop that calls the oldest of the A ensure procedures first
EpopLoop_oldestFirst(t) ==
  LET r == Act(t)
      n == r.n + 1
  IN  IF n < r.a
      THEN LET e == CurFr(t).eidx - 1
               t1 == [SetAct(t, [r EXCEPT !.n = n])
                        EXCEPT !.cis[t.ci + 1].eidx = e]
           IN  ecall(t1, e + 2 * n + 1 - r.a, "epop")
      ELSE NEXT([SetAct(t, [r EXCEPT !.n = n]) EXCEPT !.last = r.g_last])

\* OP_EPOP's loop, after ecall number n returned
EpopLoop(t) ==
  LET r == Act(t)
      n == r.n + 1
  IN  IF n < r.a
      THEN LET e == CurFr(t).eidx - 1
               t1 == [SetAct(t, [r EXCEPT !.n = n])
                        EXCEPT !.cis[t.ci + 1].eidx = e]
           IN  ecall(t1, e, "epop")
      ELSE NEXT([SetAct(t, [r EXCEPT !.n = n]) EXCEPT !.last = r.g_last])

\* OP_RETURN after its cipop: the ensure loop, then the hand-over of v
RetLoop(t) ==
  LET r == Act(t) IN
  IF t.ci < 0 THEN Undef(t)
  ELSE IF r.eidx > CurFr(t).eidx
  THEN ecall(SetAct(t, [r EXCEPT !.eidx = @ - 1]), r.eidx - 1, "ret")
  ELSE LET t1 == [t EXCEPT !.last = r.g_last]
       IN  IF r.acc < 0 THEN EndRun(t1, r.v)
           ELSE LET p == CurFr(t).proc IN
                IF ~Bytecode(t, p) \/ ~RegOK(t, r.acc) THEN Undef(t1)
                ELSE SetReg(SetAct(t1, [r EXCEPT !.proc = p,
                                                 !.irep = t.procs[p].irep]),
                            r.acc, r.v)

\* a stop path that clears the exception slot
L_STOP_clearing(t) == EndRun([t EXCEPT !.exc = NullObj], Nil)

\* L_STOP
L_STOP(t) == EndRun(t, Nil)

\* frame k has a rescue handler of its own
Active(t, k) ==
  IF k = 0 THEN Fr(t, 0).ridx > 0 ELSE Fr(t, k).ridx > Fr(t, k - 1).ridx

RECURSIVE Unwind(_, _)
\* the loop of L_RAISE from frame k > 0: the frame it stops at, -1 for L_STOP
Unwind(t, k) ==
  IF Fr(t, k).ridx = Fr(t, k - 1).ridx
  THEN IF k - 1 = 0
       THEN IF Fr(t, 0).ridx = 0 THEN -1 ELSE 0
       ELSE Unwind(t, k - 1)
  ELSE k

\* the frame L_RAISE resumes in, -1 when it goes to L_STOP
RaiseTarget(t) == IF t.ci = 0 THEN -1 ELSE Unwind(t, t.ci)

\* L_RAISE
L_RAISE(t) ==
  LET k == RaiseTarget(t) IN
  IF k < 0 THEN L_STOP([t EXCEPT !.ci = 0])
  ELSE LET f == Fr(t, k) IN
       IF ~Bytecode(t, f.proc) \/ f.ridx < 1 \/ f.ridx > Len(t.rescue)
       THEN Undef([t EXCEPT !.ci = k])
       ELSE [SetAct(t, [Act(t) EXCEPT !.irep = t.procs[f.proc].irep,
                                      !.regs = f.stackidx,
                                      !.rgen = t.stgen,
                                      !.pc = t.rescue[f.ridx]])
               EXCEPT !.ci = k,
                      !.stack = f.stackidx,
                      !.cis[k + 1].ridx = f.ridx - 1]

\* ------------------------------------------------------------------------
\* Heap allocation: exceptions, arrays, closures
\* ------------------------------------------------------------------------
ExcObj(cls, kind, given, expected, mid) ==
  [cls |-> cls, kind |-> kind, given |-> given, expected |-> expected,
   mid |-> mid]

\* a new exception object becomes mrb->exc
SetNewExc(t, obj) ==
  [t EXCEPT !.excs = Append(@, obj), !.exc = ExcV(Len(t.excs) + 1)]

\* localjump_error(mrb, kind)
localjump_error(t, kind) ==
  SetNewExc(t, ExcObj("LocalJumpError", kind, 0, 0, 0))

\* argnum_error(mrb, num): "wrong number of arguments (ci->argc for num)"
argnum_error(t, num) ==
  SetNewExc(t, ExcObj("ArgumentError", "wrong number of arguments",
                      CurFr(t).argc, num, CurFr(t).mid))

\* mrb_ary_new_elts: a new array of the given elements, and its value
NewAry(t, elts) == [t EXCEPT !.arys = Append(@, elts)]
NewAryV(t) == AryV(Len(t.arys) + 1)

\* mrb_closure_new(mrb, irep): a procedure bound to the environment of the
\* current frame, which is created on first use (src/proc.c is not part of
\* the sources; this follows sections 3 and 4.4 of the specification)
mrb_closure_new(t, ir) ==
  LET f == CurFr(t)
      fresh == f.env = 0
      e == IF fresh THEN Len(t.envs) + 1 ELSE f.env
      env == [cioff |-> t.ci, onstack |-> TRUE, off |-> t.stack,
              gen |-> t.stgen, buf |-> <<>>, atret |-> <<>>,
              flags |-> IF Bytecode(t, f.proc)
                        THEN IrepOfProc(t, f.proc).nlocals ELSE 0,
              mid |-> f.mid,
              c |-> IF f.proc \in 1..Len(t.procs)
                    THEN t.procs[f.proc].env ELSE 0]
      t1 == IF fresh
            THEN [t EXCEPT !.envs = Append(@, env), !.cis[t.ci + 1].env = e]
            ELSE t
  IN  [t1 EXCEPT !.procs =
         Append(@, [cfunc |-> FALSE, irep |-> ir, strict |-> FALSE,
                    env |-> e, target_class |-> f.target_class])]

\* ------------------------------------------------------------------------
\* Opcodes without a transfer of control
\* ------------------------------------------------------------------------
DoNOP(t, i) == NEXT(t)

DoMOVE(t, i) ==
  IF ~RegsOK(t, {i.a, i.b}) THEN Undef(t)
  ELSE NEXT(SetReg(t, i.a, Reg(t, i.b)))

\* pool and syms are those of the working irep
Pool(t) == t.irep_tab[Act(t).irep].pool
SymAt(t, b) == t.irep_tab[Act(t).irep].syms[b]

DoLOADL(t, i) ==
  IF ~RegOK(t, i.a) \/ i.b + 1 > Len(Pool(t)) THEN Undef(t)
  ELSE NEXT(SetReg(t, i.a, Pool(t)[i.b + 1]))

DoLOADI(t, i) ==
  IF ~RegOK(t, i.a) THEN Undef(t)
  ELSE NEXT(SetReg(t, i.a, FixV(i.b)))

DoLOADNIL(t, i) ==
  IF ~RegOK(t, i.a) THEN Undef(t)
  ELSE NEXT(SetReg(t, i.a, Nil))

\* uvenv(mrb, up): the up-th parent of the environment of the current
\* frame's procedure, 0 when the procedure has none, -1 when the walk
\* dereferences a null or wild pointer
RECURSIVE EnvUp(_, _, _)
EnvUp(t, e, up) ==
  IF up = 0 THEN e
  ELSE IF e \notin 1..Len(t.envs) THEN -1
  ELSE EnvUp(t, t.envs[e].c, up - 1)

uvenv(t, up) ==
  LET p == CurFr(t).proc IN
  IF p \notin 1..Len(t.procs) THEN -1
  ELSE IF t.procs[p].env = 0 THEN 0
  ELSE EnvUp(t, t.procs[p].env, up)

\* e->stack[idx] can be read
EnvSlotOK(t, e, idx) ==
  IF e.onstack
  THEN e.gen = t.stgen /\ e.off + idx >= 0 /\ e.off + idx < Len(t.stk)
  ELSE idx >= 0 /\ idx < Len(e.buf)

\* e->stack[idx]
EnvSlot(t, e, idx) ==
  IF e.onstack THEN t.stk[e.off + idx + 1] ELSE e.buf[idx + 1]

\* R(A) := uvget(B, C)
DoGETUPVAR(t, i) ==
  LET e == uvenv(t, i.c) IN
  IF ~RegOK(t, i.a) \/ e < 0 THEN Undef(t)
  ELSE IF e = 0 THEN NEXT(SetReg(t, i.a, Nil))
  ELSE IF e > Len(t.envs) \/ ~EnvSlotOK(t, t.envs[e], i.b) THEN Undef(t)
  ELSE NEXT(SetReg([t EXCEPT !.last.uv = e], i.a,
                   EnvSlot(t, t.envs[e], i.b)))

DoLOADSELF(t, i) ==
  IF ~RegOK(t, i.a) \/ ~SlotOK(t, 0) THEN Undef(t)
  ELSE NEXT(SetReg(t, i.a, Slot(t, 0)))

\* pc += sBx; JUMP
DoJMP(t, i) == SetAct(t, [Act(t) EXCEPT !.pc.off = @ + i.b])

DoJMPIF(t, i) ==
  IF ~RegOK(t, i.a) THEN Undef(t)
  ELSE IF mrb_test(Reg(t, i.a)) THEN DoJMP(t, i)
  ELSE NEXT(t)

\* a store at slot k (from 0) of a growable array of which Len(arr) slots
\* were written so far
Store(arr, k, x, pad) ==
  IF k < Len(arr) THEN [arr EXCEPT ![k + 1] = x]
  ELSE [j \in 1..k |-> IF j <= Len(arr) THEN arr[j] ELSE pad] \o <<x>>

\* mrb->rsize, mrb->esize: 16 at first, then doubled, when idx reaches it
Grow(size, idx) ==
  IF size <= idx THEN (IF size = 0 THEN 16 ELSE size * 2) ELSE size

DoONERR(t, i) ==
  LET r == CurFr(t).ridx IN
  IF r < 0 \/ r >= Grow(t.rsize, r) THEN Undef(t)
  ELSE NEXT([t EXCEPT !.rsize = Grow(@, r),
                      !.rescue = Store(@, r, [ir |-> Act(t).pc.ir,
                                              off |-> Act(t).pc.off + i.b],
                                       NullPC),
                      !.cis[t.ci + 1].ridx = r + 1,
                      !.cis[t.ci + 1].hbase = t.stack])

\* SET_OBJ_VALUE reads the type tag through mrb->exc
DoRESCUE(t, i) ==
  IF ~RegOK(t, i.a) \/ t.exc.tt \notin HeapTypes THEN Undef(t)
  ELSE NEXT([SetReg(t, i.a, t.exc) EXCEPT !.exc = NullObj])

DoPOPERR(t, i) == NEXT([t EXCEPT !.cis[t.ci + 1].ridx = @ - i.a])

DoEPUSH(t, i) ==
  LET ir == t.irep_tab[Act(t).irep].idx + i.b
      e == CurFr(t).eidx
  IN  IF ir \notin 1..Len(t.irep_tab) \/ e < 0 \/ e >= Grow(t.esize, e)
      THEN Undef(t)
      ELSE LET t1 == mrb_closure_new(t, ir) IN
           NEXT([t1 EXCEPT !.esize = Grow(@, e),
                           !.ensure = Store(@, e, Len(t1.procs), 0),
                           !.cis[t.ci + 1].eidx = e + 1])

\* for (n = 0; n < a; n++) ecall(mrb, --mrb->ci->eidx); NEXT
DoEPOP(t, i) ==
  EpopLoop(SetAct(t, [Act(t) EXCEPT !.n = -1, !.a = i.a, !.g_last = t.last]))

DoARRAY(t, i) ==
  IF ~RegsOK(t, {i.a} \cup {i.b + j : j \in 0..(i.c - 1)}) THEN Undef(t)
  ELSE NEXT(SetReg(NewAry(t, [j \in 1..i.c |-> Reg(t, i.b + j - 1)]),
                   i.a, NewAryV(t)))

DoSTOP(t, i) == L_STOP(t)

\* mrb_proc_new(mrb, irep): a procedure without an environment (src/proc.c
\* is not part of the sources)
mrb_proc_new(t, ir) ==
  [t EXCEPT !.procs =
     Append(@, [cfunc |-> FALSE, irep |-> ir, strict |-> FALSE, env |-> 0,
                target_class |-> CurFr(t).target_class])]

DoLAMBDA(t, i) ==
  LET ir == t.irep_tab[Act(t).irep].idx + i.b
      capture == (i.c \div OP_L_CAPTURE) % 2 = 1
      strict == (i.c \div OP_L_STRICT) % 2 = 1
  IN  IF ir \notin 1..Len(t.irep_tab) \/ ~RegOK(t, i.a) THEN Undef(t)
      ELSE LET t1 == IF capture THEN mrb_closure_new(t, ir)
                     ELSE mrb_proc_new(t, ir)
               p == Len(t1.procs)
               t2 == IF strict THEN [t1 EXCEPT !.procs[p].strict = TRUE]
                     ELSE t1
           IN  NEXT(SetReg(t2, i.a, ProcV(p)))

\* ------------------------------------------------------------------------
\* Raising
\* ------------------------------------------------------------------------
\* the innermost frame, from the current one down, with a handler of its own
NearestHandler(t) ==
  LET S == {k \in 0..t.ci : Active(t, k)}
  IN  IF S = {} THEN -1 ELSE CHOOSE k \in S : \A j \in S : j <= k

\* the ensure procedures registered by the frames above frame lo, up to the
\* current one, and not yet popped: each frame starts with the eidx of the
\* frame below it
PendingAbove(t, lo) ==
  {t.ensure[n] : n \in {m \in 1..Len(t.ensure) :
                           m > Fr(t, lo).eidx /\ m <= CurFr(t).eidx}}

\* goto L_RAISE, with the history of the raise
GoRaise(t) ==
  LET hk == NearestHandler(t)
      keep == IF RaiseTarget(t) < 0 THEN 0 ELSE RaiseTarget(t)
      f == IF hk >= 0 THEN Fr(t, hk) ELSE ZeroFrame
  IN  L_RAISE([t EXCEPT !.last.raised = TRUE,
                        !.last.rexc = t.exc,
                        !.last.hk = hk,
                        !.last.hridx = f.ridx,
                        !.last.hbase = f.hbase,
                        !.last.pend = PendingAbove(t, keep),
                        !.last.hpc = IF hk >= 0 /\ f.ridx \in 1..Len(t.rescue)
                                     THEN t.rescue[f.ridx] ELSE NullPC,
                        !.log = Append(@, [Event("raise", 0, t)
                                             EXCEPT !.handler = hk >= 0])])

DoRAISE(t, i) ==
  IF ~RegOK(t, i.a) THEN Undef(t)
  ELSE GoRaise([t EXCEPT !.exc = mrb_object(Reg(t, i.a))])

\* mrb_exc_new3(mrb, mrb->eRuntimeError_class, pool[Bx])
DoERR(t, i) ==
  IF i.b + 1 > Len(Pool(t)) THEN Undef(t)
  ELSE GoRaise(SetNewExc(t, ExcObj("RuntimeError", "literal", i.b, 0, 0)))

\* ------------------------------------------------------------------------
\* OP_SEND
\* ------------------------------------------------------------------------
\* what a native function (m->body.func) may do: return a value, return
\* with mrb->exc set, or leave through longjmp(*mrb->jmp)
NativeOutcomes ==
  [kind : {"ret"}, v : {FixV(5), Nil}, name : {0}, argc : {0}]
    \cup [kind : {"raise", "jump"}, v : {Nil}, name : {0}, argc : {0}]

NativeExc == ExcObj("NativeError", "native", 0, 0, 0)

\* the rewrite of a call whose method was not found: the symbol becomes the
\* first argument
Missing(t, a, n, sym) ==
  IF n = CALL_MAXARGS
  THEN IF Reg(t, a + 1).tt # "array" THEN Undef(t)
       ELSE [t EXCEPT !.arys[Reg(t, a + 1).v] = <<sym>> \o @]
  ELSE SetReg([t EXCEPT !.stk =
                 [k \in 1..Len(t.stk) |->
                    IF k - 1 - Act(t).regs \in (a + 2)..(a + n + 2)
                    THEN t.stk[k - 1] ELSE t.stk[k]]],
              a + 1, sym)

\* the registers the rewrite touches
MissingRegs(a, n) ==
  IF n = CALL_MAXARGS THEN {a, a + 1} ELSE a..(a + n + 2)

\* what a native function that calls back into the VM does once, before it
\* returns the result: mrb_funcall_argv(self, name, argc, argv),
\* mrb_yield_argv(block, argc, argv) when it was given a block, or
\* mrb_checkstack(argc)
CallingOutcomes ==
  [kind : {"funcall"}, v : {FixV(5)},
   name : {Sym.plain, Sym.nat, Sym.none, Sym.boom}, argc : 0..MaxCallArgc]
    \cup [kind : {"yield"}, v : {Nil}, name : {0}, argc : 0..MaxCallArgc]
    \cup [kind : {"checkstack"}, v : {Nil}, name : {0},
           argc : {1, STACK_INIT_SIZE + 2}]

\* the arguments such a function passes
CallArgv(argc) == [j \in 1..argc |-> FixV(20 + j)]

\* mrb->stack = mrb->stbase + ci->stackidx; cipop(mrb) without the cipop
NativeReturn_noPop(t, stackidx) == [t EXCEPT !.stack = stackidx]

\* mrb->stack = mrb->stbase + ci->stackidx; cipop(mrb)
NativeReturn(t, stackidx) == [t EXCEPT !.stack = stackidx, !.ci = t.ci - 1]

\* OP_SEND after m->body.func returned v; frame k was pushed for the call
NativeFinish(t, v, k) ==
  IF t.status = "undefined" THEN t
  ELSE IF ~SlotOK(t, 0) THEN Undef(t)
  ELSE LET t1 == SetSlot(t, 0, v) IN
       IF t1.exc # NullObj THEN GoRaise(t1)
       ELSE IF t1.ci < 1 THEN Undef([t1 EXCEPT !.ci = t1.ci - 1])
       ELSE NEXT(NativeReturn(t1, Fr(t1, k).stackidx))

\* cipush and the fields mrb_funcall_with_block and mrb_yield_with_self set
\* in the new frame; t1 is cipush(t), the base moves up by n
CallPush(t, t1, p, mid, self, argc, n) ==
  [t1 EXCEPT !.cis[t1.ci + 1] =
               [@ EXCEPT !.mid = mid,
                         !.proc = p,
                         !.stackidx = t.stack,
                         !.argc = argc,
                         !.target_class = t.procs[p].target_class,
                         !.nregs = argc + 2,
                         !.acc = -1,
                         !.self = self],
             !.stack = t.stack + n]

\* mrb->stack[0] = self; the arguments; mrb->stack[argc+1] = blk (nil)
CallStore(t3, vals) ==
  [t3 EXCEPT !.stk =
     [x \in 1..Len(@) |->
        IF x - 1 - t3.stack \in 0..(Len(vals) - 1)
        THEN vals[x - t3.stack] ELSE @[x]]]

\* the native callee returned v: the frame is popped and v is the result
CallNative(t5, fc0, v, k) ==
  NativeFinish(
    [t5 EXCEPT !.last.fc =
       [fc0 EXCEPT !.ci1 = t5.ci, !.stack1 = t5.stack,
                   !.val = v, !.ret = v, !.completed = TRUE]],
    v, k)

\* val = mrb_run(mrb, p, self) is entered
CallRun(t6, fc0, k) == SetAct(t6, [Act(t6) EXCEPT !.n = k, !.fc = fc0])

\* the call itself, t4 being the state with the frame and the registers set
CallBody(t, t4, p, self, v, k, fc0) ==
  IF t.procs[p].cfunc
  THEN CallNative(NativeReturn(t4, t.stack), fc0, v, k)
  ELSE CallRun(mrb_run([SetAct(t4, [Act(t4) EXCEPT !.g_last = t4.last])
                          EXCEPT !.last.done = FALSE], p, self, "call"),
               fc0, k)

\* after stack_extend(mrb, ci->nregs, 0) gave t3
CallExtended(t, t3, p, self, args, v, k, op) ==
  IF t3.status = "undefined" THEN t3
  ELSE CallBody(t, CallStore(t3, <<self>> \o args \o <<Nil>>), p, self, v, k,
                [NoFc EXCEPT !.valid = TRUE, !.op = op, !.ci0 = t.ci,
                             !.stack0 = t.stack,
                             !.bytecode = ~t.procs[p].cfunc])

\* the part mrb_funcall_with_block and mrb_yield_with_self share: push a
\* frame for p above the n registers of the current frame, store self, the
\* arguments and a nil block, and call p.  v is what a native p returns;
\* k is the frame of the native function that makes the call.
CallProc(t, p, mid, self, args, n, v, k, op) ==
  CallExtended(t,
    stack_extend(CallPush(t, cipush(t), p, mid, self, Len(args), n),
                 Len(args) + 2, 0),
    p, self, args, v, k, op)

\* mrb_funcall_with_block(mrb, self, name, argc, argv, 0)
mrb_funcall_with_block(t, self, name, argc, v, k) ==
  LET m0 == mrb_method_search_vm(name)
      miss == m0 = 0
      mid == IF miss THEN Sym.method_missing ELSE name
      p == IF miss THEN mrb_method_search_vm(Sym.method_missing) ELSE m0
      n == IF miss THEN CurFr(t).nregs + 1 ELSE CurFr(t).nregs
      args == IF miss THEN <<SymV(name)>> \o CallArgv(argc)
              ELSE CallArgv(argc)
  IN  IF p = 0 THEN Undef(t)
      ELSE CallProc(t, p, mid, self, args, n, v, k, "funcall")

\* mrb_yield_with_self(mrb, b, argc, argv, self)
mrb_yield_with_self(t, b, argc, self, v, k) ==
  IF b.tt # "proc" \/ b.v \notin 1..Len(t.procs) THEN Undef(t)
  ELSE CallProc(t, b.v, CurFr(t).mid, self, CallArgv(argc), CurFr(t).nregs,
                v, k, "yield")

\* mrb_funcall_with_block or mrb_yield_with_self after the mrb_run it made
\* returned v; r holds the locals of that run.  The native function that
\* made the call returns v in turn.
CallReturned(t, v, r) ==
  LET h == [Act(t).g_last EXCEPT !.fc =
              [r.fc EXCEPT !.ci1 = t.ci, !.stack1 = t.stack, !.val = v,
                           !.ret = t.last.retv,
                           !.completed = /\ t.last.op = "RETURN"
                                         /\ ~t.last.raised
                                         /\ t.exc = NullObj]]
  IN  NativeFinish([t EXCEPT !.last = h], v, r.n)

\* the native branch of SEND; frame k was pushed for the call
NativeSend(t, out, k) ==
  IF out.kind = "jump" THEN GoRaise(SetNewExc(t, NativeExc))
  ELSE IF ~SlotOK(t, 0) THEN Undef(t)
  ELSE IF out.kind = "funcall"
  THEN mrb_funcall_with_block(t, Slot(t, 0), out.name, out.argc, out.v, k)
  ELSE IF out.kind = "yield"
  THEN LET argc == Fr(t, k).argc IN
       IF argc < 0 \/ ~SlotOK(t, argc + 1)
          \/ Slot(t, argc + 1).tt # "proc"
       THEN NativeFinish(t, Nil, k)
       ELSE mrb_yield_with_self(t, Slot(t, argc + 1), out.argc, Slot(t, 0),
                                out.v, k)
  ELSE IF out.kind = "checkstack"
  THEN NativeFinish(mrb_checkstack(t, out.argc), Nil, k)
  ELSE NativeFinish(IF out.kind = "raise" THEN SetNewExc(t, NativeExc)
                    ELSE t, out.v, k)

\* stack_extend as the call opcodes use it
ExtendFor(t, nregs, argc) ==
  IF argc < 0 THEN stack_extend(t, Max(3, nregs), 3)
  ELSE stack_extend(t, nregs, argc + 2)

\* regs = mrb->stack; pc = irep->iseq; JUMP
EnterIrep(t, ir) ==
  IF t.status = "undefined" THEN t
  ELSE SetAct(t, [Act(t) EXCEPT !.regs = t.stack, !.rgen = t.stgen,
                                !.pc = [ir |-> ir, off |-> 1]])

\* the arguments and the block of a call: R(a+1)..R(a+n+1), or the
\* elements of the array in R(a+1) and R(a+2) when they are packed
CallArgs(t, a, n, packed) ==
  IF packed
  THEN t.arys[Reg(t, a + 1).v] \o <<Reg(t, a + 2)>>
  ELSE [j \in 1..(n + 1) |-> Reg(t, a + j)]

\* what the rewrite for method_missing turned the call of t into, in t1
MissGhost(t, t1, a, c, argc, mid, sym) ==
  [valid |-> TRUE, c |-> c, sym |-> sym,
   orig |-> CallArgs(t, a, c, c = CALL_MAXARGS),
   mid |-> mid, argc |-> argc,
   seen |-> CallArgs(t1, a, c + 1, c = CALL_MAXARGS)]

DoSEND(t, i, out) ==
  LET a == i.a
      mid0 == SymAt(t, i.b)
      m0 == mrb_method_search_vm(mid0)
      miss == m0 = 0
      mid == IF miss THEN Sym.method_missing ELSE mid0
      m == IF miss THEN mrb_method_search_vm(Sym.method_missing) ELSE m0
      n == IF miss /\ i.c # CALL_MAXARGS THEN i.c + 1 ELSE i.c
      argc == IF n = CALL_MAXARGS THEN -1 ELSE n
  IN  IF m = 0 \/ ~RegsOK(t, IF miss THEN MissingRegs(a, i.c) ELSE {a})
      THEN Undef(t)
      ELSE LET t1 == IF miss THEN Missing(t, a, i.c, SymV(mid0)) ELSE t IN
           IF t1.status = "undefined" THEN t1
           ELSE LET t2 == cipush(t1)
                    k == t2.ci
                    f == [Fr(t2, k) EXCEPT
                            !.mid = mid,
                            !.proc = m,
                            !.self = Reg(t1, a),
                            !.stackidx = t1.stack,
                            !.argc = argc,
                            !.target_class = t.procs[m].target_class,
                            !.pc = [Act(t).pc EXCEPT !.off = @ + 1]]
                    t3 == [t2 EXCEPT !.cis[k + 1] = f,
                                     !.stack = t1.stack + a,
                                     !.last.mm =
                                       IF miss
                                       THEN MissGhost(t, t1, a, i.c, argc,
                                                      mid, SymV(mid0))
                                       ELSE NoMm]
                IN  IF t.procs[m].cfunc THEN NativeSend(t3, out, k)
                    ELSE LET ir == t.procs[m].irep
                             nregs == t.irep_tab[ir].nregs
                             snap == [valid |-> TRUE, depth |-> t.ci,
                                      base |-> t.stack, pc |-> f.pc, a |-> a,
                                      n |-> i.c,
                                      lo |-> [j \in 1..a |-> Reg(t1, j - 1)]]
                             t4 == [SetAct(t3, [Act(t3) EXCEPT !.proc = m,
                                                               !.irep = ir])
                                      EXCEPT !.cis[k + 1].acc = a,
                                             !.cis[k + 1].nregs = nregs,
                                             !.cis[k + 1].snap = snap,
                                             !.last.bytecode = TRUE]
                         IN  EnterIrep(ExtendFor(t4, nregs, argc), ir)

\* ------------------------------------------------------------------------
\* OP_RETURN
\* ------------------------------------------------------------------------
\* the values an environment holds
EnvVals(t, e) ==
  IF e.onstack THEN [j \in 1..e.flags |-> t.stk[e.off + j]] ELSE e.buf

\* the environment's stack pointer can be read for len values
EnvReadable(t, e) ==
  IF e.onstack
  THEN e.gen = t.stgen /\ e.off >= 0 /\ e.off + e.flags <= Len(t.stk)
  ELSE e.flags <= Len(e.buf)

\* history: the registers of a frame that owns an environment, as they are
\* when the frame executes its return
RetGhost(t) ==
  LET en == CurFr(t).env IN
  IF en \notin 1..Len(t.envs) THEN t
  ELSE [t EXCEPT !.envs[en].atret =
          [j \in 1..t.envs[en].flags |->
             IF RegOK(t, j - 1) THEN Reg(t, j - 1) ELSE JunkV]]

\* a promotion that marks the environment detached and leaves its stack
\* pointer into the operand stack
DetachEnv_aliasing(t) ==
  LET en == CurFr(t).env IN
  IF en = 0 THEN t
  ELSE [t EXCEPT !.envs[en] = [@ EXCEPT !.cioff = -1]]

\* if (mrb->ci->env): the environment gets a copy of its registers
DetachEnv(t) ==
  LET en == CurFr(t).env IN
  IF en = 0 THEN t
  ELSE IF ~EnvReadable(t, t.envs[en]) THEN Undef(t)
  ELSE [t EXCEPT !.envs[en] =
          [@ EXCEPT !.cioff = -1, !.onstack = FALSE,
                    !.buf = SubSeq(EnvVals(t, t.envs[en]), 1,
                                   t.envs[en].flags)]]

\* L_RETURN with the operands A and B of the instruction in i
\* the history of a RETURN with mode b by the procedure of the current frame
NlGhost(t, a, b) ==
  LET p == CurFr(t).proc
      en == IF p \in 1..Len(t.procs) THEN t.procs[p].env ELSE 0
      off == IF en = 0 THEN 0 ELSE t.envs[en].cioff
      k == IF b = OP_R_BREAK THEN off + 1 ELSE off
  IN  IF b \notin {OP_R_BREAK, OP_R_RETURN} \/ en = 0 \/ ~RegOK(t, a)
         \/ t.status = "undefined"
      THEN t
      ELSE [t EXCEPT !.last.nl =
              [valid |-> TRUE, mode |-> b, cioff |-> off, v |-> Reg(t, a),
               acc |-> IF k \in 0..(Len(t.cis) - 1) THEN Fr(t, k).acc ELSE 0,
               pc |-> IF k \in 0..(Len(t.cis) - 1) THEN Fr(t, k).pc
                      ELSE NullPC]]

L_RETURN(t, a, b) ==
  LET t1 == NlGhost(DetachEnv(RetGhost(t)), a, b) IN
  IF t1.status = "undefined" THEN t1
  ELSE IF t1.exc # NullObj THEN GoRaise(t1)
  ELSE IF ~RegOK(t1, a) THEN Undef(t1)
  ELSE
    LET r == Act(t1)
        v == Reg(t1, a)
        eidx == CurFr(t1).eidx
        nonlocal == b \in {OP_R_BREAK, OP_R_RETURN}
        en == IF r.proc \in 1..Len(t1.procs) THEN t1.procs[r.proc].env ELSE 0
    IN  IF nonlocal /\ en = 0 THEN Undef(t1)
        ELSE IF nonlocal /\ t1.envs[en].cioff < 0
        THEN GoRaise(localjump_error(t1, IF b = OP_R_BREAK THEN "break"
                                          ELSE "return"))
        ELSE
          LET k == IF b = OP_R_BREAK THEN t1.envs[en].cioff + 1
                   ELSE IF b = OP_R_RETURN THEN t1.envs[en].cioff
                   ELSE t1.ci
          IN  IF k + 1 > Len(t1.cis) THEN Undef([t1 EXCEPT !.ci = k])
              ELSE LET f == Fr(t1, k)
                       h == [t1.last EXCEPT !.snap = f.snap, !.retv = v,
                                            !.pend =
                                              IF k >= 1
                                              THEN PendingAbove(t1, k - 1)
                                              ELSE {}]
                   IN  RetLoop([SetAct(t1, [r EXCEPT !.acc = f.acc,
                                                     !.pc = f.pc,
                                                     !.regs = f.stackidx,
                                                     !.rgen = t1.stgen,
                                                     !.eidx = eidx,
                                                     !.v = v,
                                                     !.g_last = h])
                                  EXCEPT !.ci = k - 1, !.stack = f.stackidx,
                                         !.last = h])

DoRETURN(t, i) == L_RETURN(t, i.a, i.b)

\* ------------------------------------------------------------------------
\* OP_CALL
\* ------------------------------------------------------------------------
DoCALL(t, i, out) ==
  IF ~SlotOK(t, 0) THEN Undef(t)
  ELSE IF Slot(t, 0).tt # "proc" \/ Slot(t, 0).v \notin 1..Len(t.procs)
  THEN Undef(t)
  ELSE
    LET m == Slot(t, 0).v
        k == t.ci
        en == t.procs[m].env
        t1 == [t EXCEPT !.cis[k + 1].target_class = t.procs[m].target_class,
                        !.last.callee = m,
                        !.cis[k + 1].proc = m,
                        !.cis[k + 1].mid =
                          IF en # 0 /\ t.envs[en].mid # 0 THEN t.envs[en].mid
                          ELSE @]
    IN  IF t.procs[m].cfunc
        THEN IF out.kind = "jump" THEN GoRaise(SetNewExc(t1, NativeExc))
             ELSE LET t2 == SetSlot(t1, 0, out.v)
                      t3 == IF out.kind = "raise" THEN SetNewExc(t2, NativeExc)
                            ELSE t2
                      f == Fr(t3, k)
                  IN  IF t3.exc # NullObj THEN GoRaise(t3)
                      ELSE NEXT([SetAct(t3, [Act(t3) EXCEPT
                                               !.regs = f.stackidx,
                                               !.rgen = t3.stgen])
                                   EXCEPT !.stack = f.stackidx,
                                          !.ci = k - 1])
        ELSE LET ir == t.procs[m].irep
                 nregs == t.irep_tab[ir].nregs
                 t2 == [SetAct(t1, [Act(t1) EXCEPT !.proc = m, !.irep = ir])
                          EXCEPT !.cis[k + 1].nregs = nregs,
                                 !.last.bytecode = TRUE]
                 t3 == EnterIrep(ExtendFor(t2, nregs, Fr(t2, k).argc), ir)
             IN  IF t3.status = "undefined" THEN t3
                 ELSE IF en = 0 THEN Undef(t3)
                 ELSE IF ~EnvReadable(t3, t3.envs[en])
                         \/ t3.envs[en].flags < 1 THEN Undef(t3)
                 ELSE SetReg([t3 EXCEPT !.cis[k + 1].self =
                                       EnvVals(t3, t3.envs[en])[1]],
                             0, EnvVals(t3, t3.envs[en])[1])

\* ------------------------------------------------------------------------
\* OP_TAILCALL
\* ------------------------------------------------------------------------
\* mrb->stack[0] = m->body.func(mrb, recv); goto L_RETURN, with the
\* operands of the TAILCALL instruction in i
TailNative(t2, out, i) ==
  IF out.kind = "jump" THEN GoRaise(SetNewExc(t2, NativeExc))
  ELSE L_RETURN(IF out.kind = "raise"
                THEN SetNewExc(SetSlot(t2, 0, out.v), NativeExc)
                ELSE SetSlot(t2, 0, out.v),
                i.a, i.b)

DoTAILCALL(t, i, out) ==
  LET a == i.a
      mid0 == SymAt(t, i.b)
      m0 == mrb_method_search_vm(mid0)
      miss == m0 = 0
      mid == IF miss THEN Sym.method_missing ELSE mid0
      m == IF miss THEN mrb_method_search_vm(Sym.method_missing) ELSE m0
      n == IF miss /\ i.c # CALL_MAXARGS THEN i.c + 1 ELSE i.c
      argc == IF n = CALL_MAXARGS THEN -1 ELSE n
      k == t.ci - 1
  IN  IF m = 0 \/ ~RegsOK(t, IF miss THEN MissingRegs(a, i.c) ELSE {a})
      THEN Undef(t)
      ELSE LET t1 == IF miss THEN Missing(t, a, i.c, SymV(mid0)) ELSE t IN
           IF t1.status = "undefined" THEN t1
           ELSE IF k < 0 THEN Undef([t1 EXCEPT !.ci = k])
           ELSE IF ~RegsOK(t1, a..(a + argc))
                   \/ \E x \in 0..argc : ~SlotOK(t1, x)
           THEN Undef([t1 EXCEPT !.ci = k])
           ELSE
             LET t2 == [t1 EXCEPT
                          !.ci = k,
                          !.cis[k + 1].mid = mid,
                          !.cis[k + 1].target_class = t.procs[m].target_class,
                          !.cis[k + 1].argc = argc,
                          !.cis[k + 1].self = Reg(t1, a),
                          !.stk = [x \in 1..Len(t1.stk) |->
                                     IF x - 1 - t1.stack \in 0..argc
                                     THEN t1.stk[Act(t1).regs + a
                                                 + (x - 1 - t1.stack) + 1]
                                     ELSE t1.stk[x]]]
             IN  IF t.procs[m].cfunc
                 THEN TailNative([t2 EXCEPT !.last.tc =
                                    [valid |-> TRUE, kind |-> out.kind,
                                     v |-> out.v, snap |-> CurFr(t).snap]],
                                 out, i)
                 ELSE LET ir == t.procs[m].irep
                          nregs == t.irep_tab[ir].nregs
                          t3 == [SetAct(t2, [Act(t2) EXCEPT !.irep = ir])
                                   EXCEPT !.last.bytecode = TRUE]
                      IN  EnterIrep(ExtendFor(t3, nregs, argc), ir)

\* ------------------------------------------------------------------------
\* OP_EXEC
\* ------------------------------------------------------------------------
\* the frame OP_EXEC pushes; cipush gave it the nregs of the frame below
ExecFrame(t, t1, a) ==
  [Fr(t1, t1.ci) EXCEPT !.pc = [Act(t).pc EXCEPT !.off = @ + 1],
                        !.acc = a,
                        !.mid = 0,
                        !.stackidx = t.stack,
                        !.argc = 0,
                        !.self = Reg(t, a),
                        !.target_class = mrb_object(Reg(t, a)).v]

\* p = mrb_proc_new(...); ci->proc = p; the body is bytecode: irep, stack
\* and pc are set up, the local proc is not
ExecBody(t2, a, ir) ==
  LET p == Len(t2.procs)
      t3 == [SetAct(t2, [Act(t2) EXCEPT !.irep = ir])
               EXCEPT !.cis[t2.ci + 1].proc = p,
                      !.stack = @ + a,
                      !.last.bytecode = TRUE]
  IN  EnterIrep(stack_extend(t3, t2.irep_tab[ir].nregs, 1), ir)

DoEXEC(t, i) ==
  LET ir == t.irep_tab[Act(t).irep].idx + i.b IN
  IF ir \notin 1..Len(t.irep_tab) \/ ~RegOK(t, i.a) THEN Undef(t)
  ELSE ExecBody(mrb_proc_new([cipush(t) EXCEPT !.cis[t.ci + 2] =
                                ExecFrame(t, cipush(t), i.a)], ir),
                i.a, ir)

\* ------------------------------------------------------------------------
\* OP_ENTER
\* ------------------------------------------------------------------------
EnterFields(ax) ==
  [m1 |-> (ax \div 262144) % 32, o |-> (ax \div 8192) % 32,
   r |-> (ax \div 4096) % 2, m2 |-> (ax \div 128) % 32]

\* argv[j]: argv is regs+1 (src = 0) or the buffer of the array src
Argv(t, src, j) ==
  IF src = 0 THEN (IF RegOK(t, 1 + j) THEN Reg(t, 1 + j) ELSE JunkV)
  ELSE IF j + 1 \in 1..Len(t.arys[src]) THEN t.arys[src][j + 1] ELSE JunkV

ArgvN(t, src, from, cnt) == [j \in 1..cnt |-> Argv(t, src, from + j - 1)]

\* memmove(&regs[dst], vs, sizeof(mrb_value)*Len(vs))
PutRegs(t, dst, vs) ==
  [t EXCEPT !.stk = [k \in 1..Len(t.stk) |->
                       LET x == k - 1 - Act(t).regs - dst
                       IN  IF x \in 0..(Len(vs) - 1) THEN vs[x + 1]
                           ELSE t.stk[k]]]

Jump(t, d) == SetAct(t, [Act(t) EXCEPT !.pc.off = @ + d])

\* the arity test of a strict proc
ArityBad(argc, m1, o, r, m2) ==
  argc >= 0 /\ (argc < m1 + m2 \/ (r = 0 /\ argc > m1 + o + r + m2))

\* a pc step that counts the supplied optional arguments only
EnterSkip_optionalsOnly(argc, m1, m2) == argc - m1 - m2

\* pc += argc - m1 - m2 + 1: over ENTER and one OP_JMP for each optional
\* argument that was supplied
EnterSkip(argc, m1, m2) == argc - m1 - m2 + 1

DoENTER(t, i) ==
  LET d == EnterFields(i.a)
      len == d.m1 + d.o + d.r + d.m2
      f == CurFr(t)
      packed == f.argc < 0
  IN  IF ~RegsOK(t, 0..Max(len + 2, f.argc + 1)) THEN Undef(t)
      ELSE IF packed /\ Reg(t, 1).tt # "array" THEN Undef(t)
      ELSE
        LET src0 == IF packed THEN Reg(t, 1).v ELSE 0
            argc0 == IF packed THEN Len(t.arys[src0]) ELSE f.argc
            strict == f.proc # 0 /\ t.procs[f.proc].strict
            t1 == [(IF packed THEN SetReg(t, len + 2, Reg(t, 1)) ELSE t)
                     EXCEPT !.last.enter =
                       [valid |-> TRUE, packed |-> packed, m1 |-> d.m1, o |-> d.o, r |-> d.r,
                        m2 |-> d.m2, count |-> argc0, strict |-> strict,
                        pc0 |-> Act(t).pc, argc |-> argc0,
                        blk |-> IF packed THEN Reg(t, 2)
                                ELSE Reg(t, f.argc + 1),
                        splat |-> FALSE]]
        IN  IF strict /\ ArityBad(argc0, d.m1, d.o, d.r, d.m2)
            THEN GoRaise(argnum_error(t1, d.m1 + d.m2))
            ELSE
              LET splat == ~strict /\ len > 1 /\ argc0 = 1
                           /\ Argv(t1, src0, 0).tt = "array"
                  src == IF splat THEN Argv(t1, src0, 0).v ELSE src0
                  argc == IF splat THEN Len(t1.arys[src]) ELSE argc0
                  t2 == [t1 EXCEPT !.cis[t.ci + 1].argc = len,
                                   !.last.enter.argc = argc,
                                   !.last.enter.splat = splat]
              IN  IF argc < len
                  THEN IF argc - d.m2 < 0 THEN Undef(t2)
                       ELSE LET a1 == SetReg(t2, len + 1, Argv(t2, src, argc))
                                a2 == PutRegs(a1, 1,
                                              ArgvN(a1, src, 0, argc - d.m2))
                                a3 == PutRegs(a2, len - d.m2 + 1,
                                              ArgvN(a2, src, argc - d.m2, d.m2))
                                a4 == IF d.r = 1
                                      THEN SetReg(NewAry(a3, <<>>),
                                                  d.m1 + d.o + 1, NewAryV(a3))
                                      ELSE a3
                            IN  Jump(a4, EnterSkip(argc, d.m1, d.m2))
                  ELSE LET b1 == PutRegs(t2, 1, ArgvN(t2, src, 0, d.m1 + d.o))
                           b2 == IF d.r = 1
                                 THEN SetReg(
                                        NewAry(b1, ArgvN(b1, src, d.m1 + d.o,
                                                 argc - d.m1 - d.o - d.m2)),
                                        d.m1 + d.o + 1, NewAryV(b1))
                                 ELSE b1
                           b3 == PutRegs(b2, d.m1 + d.o + d.r + 1,
                                         ArgvN(b2, src, argc - d.m2, d.m2))
                           b4 == SetReg(b3, len + 1, Argv(b3, src, argc))
                       IN  Jump(b4, d.o + 1)

\* ------------------------------------------------------------------------
\* Arithmetic and comparison on fixnums; any other operand type is a send
\* ------------------------------------------------------------------------
BothFix(t, a) == Reg(t, a).tt = "fixnum" /\ Reg(t, a + 1).tt = "fixnum"

DoADD(t, i, out) ==
  IF ~RegsOK(t, {i.a, i.a + 1}) THEN Undef(t)
  ELSE IF BothFix(t, i.a)
  THEN IF ~InInt(Reg(t, i.a).v + Reg(t, i.a + 1).v) THEN Undef(t)
       ELSE NEXT(SetReg(t, i.a, FixV(Reg(t, i.a).v + Reg(t, i.a + 1).v)))
  ELSE DoSEND(t, I("SEND", i.a, i.b, i.c), out)

DoSUBI(t, i, out) ==
  IF ~RegsOK(t, {i.a, i.a + 1}) THEN Undef(t)
  ELSE IF Reg(t, i.a).tt = "fixnum"
  THEN IF ~InInt(Reg(t, i.a).v - i.c) THEN Undef(t)
       ELSE NEXT(SetReg(t, i.a, FixV(Reg(t, i.a).v - i.c)))
  ELSE DoSEND(SetReg(t, i.a + 1, FixV(i.c)), I("SEND", i.a, i.b, 1), out)

DoEQ(t, i, out) ==
  IF ~RegsOK(t, {i.a, i.a + 1}) THEN Undef(t)
  ELSE IF BothFix(t, i.a)
  THEN NEXT(SetReg(t, i.a, IF Reg(t, i.a).v = Reg(t, i.a + 1).v
                           THEN TrueV ELSE FalseV))
  ELSE DoSEND(t, I("SEND", i.a, i.b, i.c), out)

\* ------------------------------------------------------------------------
\* The state machine
\* ------------------------------------------------------------------------
Init ==
  /\ irep_tab = <<>>
  /\ stk = <<>>
  /\ stack = 0
  /\ stgen = 0
  /\ cis = <<>>
  /\ ci = 0
  /\ cisize = 0
  /\ rescue = <<>>
  /\ rsize = 0
  /\ ensure = <<>>
  /\ esize = 0
  /\ exc = NullObj
  /\ procs = <<>>
  /\ envs = <<>>
  /\ arys = <<>>
  /\ excs = <<>>
  /\ runs = <<>>
  /\ status = "fresh"
  /\ retval = Nil
  /\ log = <<>>
  /\ last = NoLast

Commit(t) ==
  /\ irep_tab' = t.irep_tab
  /\ stk' = t.stk
  /\ stack' = t.stack
  /\ stgen' = t.stgen
  /\ cis' = t.cis
  /\ ci' = t.ci
  /\ cisize' = t.cisize
  /\ rescue' = t.rescue
  /\ rsize' = t.rsize
  /\ ensure' = t.ensure
  /\ esize' = t.esize
  /\ exc' = t.exc
  /\ procs' = t.procs
  /\ envs' = t.envs
  /\ arys' = t.arys
  /\ excs' = t.excs
  /\ runs' = t.runs
  /\ status' = t.status
  /\ retval' = t.retval
  /\ log' = t.log
  /\ last' = t.last

\* the proc id of the top-level program
TopProc == Len(InitProcs(TRUE)) + 1

\* the self the host passes to mrb_run
HostSelves == {MainV}

\* the host loads an image into a fresh mrb_state and calls mrb_run on its
\* top-level proc
HostRun ==
  /\ status = "fresh"
  /\ \E img \in Images, self \in HostSelves :
       Commit(mrb_run([St EXCEPT
                         !.irep_tab = <<img.top>> \o Library(img.d),
                         !.procs = Append(InitProcs(img.strict),
                                          MkProc(FALSE, 1, FALSE, 0)),
                         !.excs = <<ExcObj("RuntimeError", "preloaded",
                                           0, 0, 0)>>,
                         !.status = "running"],
                      TopProc, self, "host"))

\* the dispatch loop is about to execute an instruction
Running == status = "running" /\ runs # <<>> /\ ValidPC(St, Act(St).pc)
At(op) == Running /\ Fetch(St).op = op
Begin(op) ==
  [St EXCEPT !.last = [LastOf(op, St) EXCEPT !.ins = Fetch(St),
                                             !.pc0 = Act(St).pc]]

OP_NOP ==
  /\ At("NOP")
  /\ Commit(DoNOP(Begin("NOP"), Fetch(St)))

OP_MOVE ==
  /\ At("MOVE")
  /\ Commit(DoMOVE(Begin("MOVE"), Fetch(St)))

OP_LOADL ==
  /\ At("LOADL")
  /\ Commit(DoLOADL(Begin("LOADL"), Fetch(St)))

OP_LOADI ==
  /\ At("LOADI")
  /\ Commit(DoLOADI(Begin("LOADI"), Fetch(St)))

OP_LOADNIL ==
  /\ At("LOADNIL")
  /\ Commit(DoLOADNIL(Begin("LOADNIL"), Fetch(St)))

OP_LOADSELF ==
  /\ At("LOADSELF")
  /\ Commit(DoLOADSELF(Begin("LOADSELF"), Fetch(St)))

OP_GETUPVAR ==
  /\ At("GETUPVAR")
  /\ Commit(DoGETUPVAR(Begin("GETUPVAR"), Fetch(St)))

OP_JMP ==
  /\ At("JMP")
  /\ Commit(DoJMP(Begin("JMP"), Fetch(St)))

OP_JMPIF ==
  /\ At("JMPIF")
  /\ Commit(DoJMPIF(Begin("JMPIF"), Fetch(St)))

OP_ONERR ==
  /\ At("ONERR")
  /\ Commit(DoONERR(Begin("ONERR"), Fetch(St)))

OP_RESCUE ==
  /\ At("RESCUE")
  /\ Commit(DoRESCUE(Begin("RESCUE"), Fetch(St)))

OP_POPERR ==
  /\ At("POPERR")
  /\ Commit(DoPOPERR(Begin("POPERR"), Fetch(St)))

OP_RAISE ==
  /\ At("RAISE")
  /\ Commit(DoRAISE(Begin("RAISE"), Fetch(St)))

OP_EPUSH ==
  /\ At("EPUSH")
  /\ Commit(DoEPUSH(Begin("EPUSH"), Fetch(St)))

OP_EPOP ==
  /\ At("EPOP")
  /\ Commit(DoEPOP(Begin("EPOP"), Fetch(St)))

OP_ENTER ==
  /\ At("ENTER")
  /\ Commit(DoENTER(Begin("ENTER"), Fetch(St)))

OP_RETURN ==
  /\ At("RETURN")
  /\ Commit(DoRETURN(Begin("RETURN"), Fetch(St)))

OP_ARRAY ==
  /\ At("ARRAY")
  /\ Commit(DoARRAY(Begin("ARRAY"), Fetch(St)))

OP_STOP ==
  /\ At("STOP")
  /\ Commit(DoSTOP(Begin("STOP"), Fetch(St)))

OP_ERR ==
  /\ At("ERR")
  /\ Commit(DoERR(Begin("ERR"), Fetch(St)))

OP_LAMBDA ==
  /\ At("LAMBDA")
  /\ Commit(DoLAMBDA(Begin("LAMBDA"), Fetch(St)))

OP_CALL ==
  /\ At("CALL")
  /\ \E out \in NativeOutcomes :
       Commit(DoCALL(Begin("CALL"), Fetch(St), out))

OP_SEND ==
  /\ At("SEND")
  /\ \E out \in NativeOutcomes \cup CallingOutcomes :
       Commit(DoSEND(Begin("SEND"), Fetch(St), out))

OP_EXEC ==
  /\ At("EXEC")
  /\ Commit(DoEXEC(Begin("EXEC"), Fetch(St)))

OP_TAILCALL ==
  /\ At("TAILCALL")
  /\ \E out \in NativeOutcomes :
       Commit(DoTAILCALL(Begin("TAILCALL"), Fetch(St), out))

OP_ADD ==
  /\ At("ADD")
  /\ \E out \in NativeOutcomes :
       Commit(DoADD(Begin("ADD"), Fetch(St), out))

OP_SUBI ==
  /\ At("SUBI")
  /\ \E out \in NativeOutcomes :
       Commit(DoSUBI(Begin("SUBI"), Fetch(St), out))

OP_EQ ==
  /\ At("EQ")
  /\ \E out \in NativeOutcomes :
       Commit(DoEQ(Begin("EQ"), Fetch(St), out))

\* i = *pc outside the instruction sequence
BadFetch ==
  /\ status = "running"
  /\ ~ValidPC(St, Act(St).pc)
  /\ Commit(Undef(St))

\* what a build may do once the behaviour is undefined: crash, or go on to
\* hand some value to the host
UndefinedBehaviour ==
  /\ status = "undefined"
  /\ \E out \in {"crashed", "returned"}, v \in {Nil, JunkV} :
       /\ out = "crashed" => v = Nil
       /\ Commit([St EXCEPT !.status = out, !.retval = v])

Next ==
  \/ HostRun
  \/ OP_NOP
  \/ OP_MOVE
  \/ OP_LOADL
  \/ OP_LOADI
  \/ OP_LOADNIL
  \/ OP_LOADSELF
  \/ OP_GETUPVAR
  \/ OP_JMP
  \/ OP_JMPIF
  \/ OP_ONERR
  \/ OP_RESCUE
  \/ OP_POPERR
  \/ OP_RAISE
  \/ OP_EPUSH
  \/ OP_EPOP
  \/ OP_ENTER
  \/ OP_RETURN
  \/ OP_ARRAY
  \/ OP_STOP
  \/ OP_ERR
  \/ OP_LAMBDA
  \/ OP_CALL
  \/ OP_SEND
  \/ OP_TAILCALL
  \/ OP_EXEC
  \/ OP_ADD
  \/ OP_SUBI
  \/ OP_EQ
  \/ BadFetch
  \/ UndefinedBehaviour

Spec == Init /\ [][Next]_vars

\* ------------------------------------------------------------------------
\* Properties
\* ------------------------------------------------------------------------
\* the program the host loaded
Loaded(top) == irep_tab # <<>> /\ irep_tab[1] = top

\* an opcode of the dispatch loop has completed and the loop goes on
Completed(op) == status = "running" /\ last.done /\ last.op = op

\* the run the host started is over, one way or another
Over == status \in {"undefined", "crashed", "returned"}

\* C1: after every completed opcode the register base is the operand-stack
\* base plus the current frame's stackidx:
\* mrb->stack == mrb->stbase + mrb->ci->stackidx
C1_StackIsFrameBase ==
  (status = "running" /\ last.done) => stack = CurFr(St).stackidx

\* C1 (where it fails): SEND with A > 0 has entered a bytecode method
C1_AfterSend ==
  Completed("SEND") /\ last.bytecode /\ last.ins.a > 0

\* C2: in every reachable state the current frame pointer is inside the
\* frame array: cibase <= ci < ciend
C2_FrameInArray ==
  status # "fresh" => (0 <= ci /\ ci < cisize)

\* C3: run, called by the host on a fresh state with [LOADI A,sBx; RETURN A]
\* returns sBx to the host, and [LOADI r1,2; LOADI r2,3; ADD r1; RETURN r1]
\* returns fixnum 5: the outermost RETURN hands the value to the host
C3_HostGetsValue ==
  /\ \A x \in -1..MaxImm :
       (Loaded(TopLoadi(x)) /\ Over) =>
         (status = "returned" /\ retval = FixV(x))
  /\ (Loaded(TopAdd) /\ Over) => (status = "returned" /\ retval = FixV(5))

\* C4: when a bytecode method entered by SEND A,B,C (C < 127) executes
\* RETURN normal with no exception pending, the frame depth and register
\* base are those before the SEND, execution resumes after the SEND, the
\* caller's R(A) holds the value and the caller's R(0)..R(A-1) are unchanged
C4_SendReturnRestores ==
  (/\ Completed("RETURN")
   /\ ~last.raised
   /\ last.ins.b = OP_R_NORMAL
   /\ last.snap.valid
   /\ last.snap.n < CALL_MAXARGS) =>
    /\ ci = last.snap.depth
    /\ stack = last.snap.base
    /\ Act(St).pc = last.snap.pc
    /\ stk[last.snap.base + last.snap.a + 1] = last.retv
    /\ \A j \in 1..last.snap.a : stk[last.snap.base + j] = last.snap.lo[j]

\* C5: RAISE in a frame that has a rescue handler of its own, the frame the
\* host entered included, goes to that handler; RESCUE A stores the raised
\* exception in R(A) and clears the exception slot; the program
\* [ONERR L1; RAISE r1; LOADI r2,42; JMP L2; L1: RESCUE r2; L2: RETURN r2]
\* hands the handler the exception object
C5_OwnHandlerTaken ==
  /\ (last.op = "RAISE" /\ last.raised /\ last.hk = last.ci0) =>
       (status = "running" /\ ci = last.ci0 /\ Act(St).pc = last.hpc)
  /\ Completed("RESCUE") =>
       (Reg(St, last.ins.a) = last.exc0 /\ exc = NullObj)
  /\ (Loaded(TopRescue) /\ Over) => Reg(St, 2) = ExcV(1)

\* C6: an exception raised in the host's run (by RAISE, ERR, ENTER, RETURN
\* from a dead scope or a native callee) while no frame from the current one
\* down to the base has a rescue handler stops the run: nil goes to the
\* host and the exception slot still holds the exception
C6_UnhandledRaiseStops ==
  (last.raised /\ last.hk < 0 /\ last.depth0 = 1) =>
    /\ status = "returned"
    /\ retval = Nil
    /\ last.rexc # NullObj
    /\ exc = last.rexc

\* C6 (its case): a raise no frame handles, in a frame above the base
C6_Unhandled ==
  last.raised /\ last.hk < 0 /\ last.depth0 = 1 /\ last.ci0 > 0
    /\ status = "returned"

\* C6 (its case): the raise of a return from a dead scope
C6_DeadScope ==
  /\ C6_Unhandled
  /\ last.op = "RETURN"
  /\ excs[exc.v].cls = "LocalJumpError"

\* C7: on a raise, unwinding stops at the nearest frame, from the current
\* one down, that has a handler of its own; pc becomes that frame's most
\* recently pushed handler and the frame's ridx goes down by one
C7_UnwindToNearestHandler ==
  (last.raised /\ last.hk >= 0) =>
    /\ status = "running"
    /\ ci = last.hk
    /\ Act(St).pc = last.hpc
    /\ CurFr(St).ridx = last.hridx - 1

\* the ensure procedures EPOP A has to call, most recently pushed first
Want(h) ==
  [j \in 1..h.ins.a |->
     IF h.eidx0 - j \in 0..(Len(h.ens0) - 1) THEN h.ens0[h.eidx0 - j + 1]
     ELSE 0]

\* the history since the last opcode began
Since(h) == SubSeq(log, h.log0 + 1, Len(log))

\* the part of it that is the opcode's own doing: the calls made by the
\* run that executes the opcode, without the calls made inside those calls
Direct(h) ==
  LET Own(e) == e.depth = h.depth0 IN SelectSeq(Since(h), Own)

\* no exception was raised since the opcode of h began
NoRaiseSince(h) == \A n \in 1..Len(Since(h)) : Since(h)[n].ev # "raise"

\* C8: EPOP A calls exactly A ensure procedures, the most recently pushed
\* first, each one ending before the next starts and all before the
\* instruction after EPOP, and lowers the frame's eidx by A; for
\* [EPUSH body1; EPUSH body2; EPOP 2; RETURN r0] body2 runs, then body1
\* (the ensure bodies run to completion: none of them raises)
C8_EpopRunsEnsuresInOrder ==
  (Completed("EPOP") /\ NoRaiseSince(last)) =>
    /\ Len(Direct(last)) = 2 * last.ins.a
    /\ \A j \in 1..last.ins.a :
         /\ Direct(last)[2 * j - 1].ev = "ecall"
         /\ Direct(last)[2 * j - 1].p = Want(last)[j]
         /\ Direct(last)[2 * j].ev = "end"
         /\ Direct(last)[2 * j].p = Want(last)[j]
    /\ CurFr(St).eidx = last.eidx0 - last.ins.a
    /\ ci = last.ci0
    /\ Act(St).pc = [last.pc0 EXCEPT !.off = @ + 1]
    /\ Loaded(TopEnsure) =>
         [j \in 1..Len(Direct(last)) |-> procs[Direct(last)[j].p].irep]
           = <<3, 3, 2, 2>>

\* C8 (its case): EPOP 2 has run two ensure procedures
C8_TwoEnsuresRan ==
  Completed("EPOP") /\ last.ins.a = 2 /\ Len(Direct(last)) = 4

\* C9: TAILCALL to a bytecode method replaces the current frame, so the
\* frame index after it is the index before it; a self-recursive tail call
\* keeps at most 2 frames above the host's entry, and the last RETURN of the
\* chain gives its value to the caller of the first method: rec(n) leaves 77
\* in the register of the SEND
C9_TailcallKeepsFrame ==
  /\ (last.op = "TAILCALL" /\ last.bytecode) => ci = last.ci0
  /\ \A a \in 0..1, n \in 0..2 :
       Loaded(TopRec(a, n)) =>
         /\ ci <= 2
         /\ Over => (status = "returned" /\ stk[a + 1] = FixV(77))

\* what ENTER decoded and counted, when the procedure is strict
Counted == last.enter

\* the count is outside [m1+m2, r ? infinity : m1+o+m2]
OutOfRange(e) ==
  e.count < e.m1 + e.m2 \/ (e.r = 0 /\ e.count > e.m1 + e.o + e.m2)

\* the rule of strict arity: an ArgumentError exactly for the counts out of
\* range
C10_ArityRule ==
  (last.op = "ENTER" /\ Counted.valid /\ Counted.strict) =>
    /\ OutOfRange(Counted) =>
         /\ last.raised
         /\ exc # NullObj
         /\ excs[exc.v].cls = "ArgumentError"
         /\ excs[exc.v].expected = Counted.m1 + Counted.m2
    /\ ~OutOfRange(Counted) => (~last.raised /\ exc = NullObj)

\* C10: ENTER in a strict procedure sets an ArgumentError and starts
\* unwinding exactly when the actual argument count (the length of the
\* packed array when argc == -1) is below m1+m2, or r == 0 and it is above
\* m1+o+m2; with m1=1, o=r=m2=0 and 2 arguments the error reports 2 given
\* for 1 expected
C10_StrictArity ==
  /\ C10_ArityRule
  /\ (/\ last.op = "ENTER" /\ Counted.valid /\ Counted.strict
      /\ Counted.m1 = 1 /\ Counted.o = 0 /\ Counted.r = 0 /\ Counted.m2 = 0
      /\ Counted.count = 2) =>
       (exc # NullObj /\ excs[exc.v].given = 2 /\ excs[exc.v].expected = 1)

\* C11: once a frame whose environment a closure captured has returned,
\* GETUPVAR with slot B and nesting 0 through that environment yields what
\* register B of the frame held when it returned, whatever other frames
\* wrote to the operand stack since; outer binds x = 7 and the closure,
\* called after outer returned, yields 7
C11_UpvalueSurvivesReturn ==
  /\ (/\ Completed("GETUPVAR")
      /\ last.ins.c = 0
      /\ last.uv # 0
      /\ last.ins.b < Len(envs[last.uv].atret)) =>
       Reg(St, last.ins.a) = envs[last.uv].atret[last.ins.b + 1]
  /\ \A a \in 0..MaxA :
       (Loaded(TopCallOf(a, Sym.outer)) /\ Over) =>
         (status = "returned" /\ stk[a + 1] = FixV(7))

\* C11 (its case): the closure read x after outer returned and after the
\* operand-stack slot that held x was overwritten
C11_ReadAfterReturn ==
  /\ Completed("GETUPVAR")
  /\ last.uv # 0
  /\ envs[last.uv].cioff < 0
  /\ envs[last.uv].atret # <<>>
  /\ Reg(St, 2) = FixV(7)
  /\ Reg(St, 1) = FixV(0)

\* C12: every environment with cioff >= 0 belongs to a frame that is live
\* at that index and aliases the operand stack; a frame that owns an
\* environment is removed (by RETURN in any mode, by raise unwinding or by
\* TAILCALL) only after the environment was detached (cioff = -1)
C12_LiveEnvHasLiveFrame ==
  (status = "running" /\ last.done) =>
    \A n \in 1..Len(envs) :
      envs[n].cioff >= 0 =>
        /\ envs[n].cioff <= ci
        /\ cis[envs[n].cioff + 1].env = n
        /\ envs[n].onstack

\* C12 (where it fails): a raise unwound past a frame that owns an
\* environment, and a handler below it runs
C12_UnwoundPastEnv ==
  /\ status = "running"
  /\ last.raised
  /\ last.hk >= 0
  /\ last.hk < last.ci0
  /\ \E n \in 1..Len(envs) : envs[n].cioff > last.hk

\* C13: register 0 of every executing frame holds the frame's self:
\* LOADSELF yields the self the frame was invoked with, after the host
\* entered run(proc, self), after funcall and yield, after SEND, and in an
\* ensure procedure (there, the self of the frame that was current when the
\* procedure was started)
C13_LoadselfYieldsSelf ==
  Completed("LOADSELF") => Reg(St, last.ins.a) = CurFr(St).self

\* C13 (where it fails): LOADSELF in the frame the host entered
C13_HostFrameSelf ==
  Completed("LOADSELF") /\ ci = 0 /\ Len(runs) = 1 /\ CurFr(St).self = MainV

\* C13 (where it fails): LOADSELF in an ensure procedure
C13_EnsureSelf ==
  /\ Completed("LOADSELF")
  /\ Len(runs) = 2
  /\ Act(St).via = "epop"
  /\ CurFr(St).self # Nil

\* C14: when funcall or yield invokes a callee, native or bytecode, that
\* completes without raising, it returns the callee's return value, and on
\* return the current frame index and the register base's offset from
\* stbase are what they were immediately before the call
C14_CallRestoresFrame ==
  (last.fc.valid /\ last.fc.completed) =>
    /\ last.fc.val = last.fc.ret
    /\ last.fc.ci1 = last.fc.ci0
    /\ last.fc.stack1 = last.fc.stack0

\* C14 (its case): funcall ran a bytecode method that returned 9
C14_FuncallBytecode ==
  /\ last.fc.valid
  /\ last.fc.completed
  /\ last.fc.op = "funcall"
  /\ last.fc.bytecode
  /\ last.fc.val = FixV(9)
  /\ last.fc.stack0 > 0

\* C14 (its case): yield ran a bytecode block to its RETURN
C14_YieldBytecode ==
  /\ last.fc.valid
  /\ last.fc.completed
  /\ last.fc.op = "yield"
  /\ last.fc.bytecode

\* C14 (its case): funcall called a native method
C14_FuncallNative ==
  last.fc.valid /\ last.fc.completed /\ last.fc.op = "funcall"
    /\ ~last.fc.bytecode

\* C15: after checkstack(n) or stack_extend(room, keep) returns, the
\* requested slots from the register base on lie inside the allocated
\* operand stack (stack + room <= stend), from every state, the calls
\* funcall and yield make after they advance the register base included
C15_ExtendGivesRoom ==
  last.ext.valid =>
    (last.ext.inside /\ last.ext.off + last.ext.room <= Len(last.ext.new))

\* C15 (where it fails): the register base was beyond stend, more than the
\* doubled size can cover, when stack_extend was called
C15_BaseBeyondEnd ==
  /\ last.ext.valid
  /\ last.ext.grew
  /\ last.ext.off0 >= Len(last.ext.old)
  /\ last.ext.room <= Len(last.ext.old)

\* C16: when stack_extend reallocates, every slot from stbase up to
\* stack + keep keeps its content and the register base keeps its offset
\* from stbase; only the slots of [stack + keep, stack + room) are
\* overwritten, and they are set to the all-zero value, nil
C16_GrowKeepsContent ==
  (last.ext.valid /\ last.ext.grew) =>
    /\ last.ext.inside
    /\ last.ext.off = last.ext.off0
    /\ Len(last.ext.new) >= Len(last.ext.old)
    /\ \A x \in 0..(Len(last.ext.old) - 1) :
         (x < last.ext.off + last.ext.keep
            \/ x >= last.ext.off + last.ext.room) =>
           last.ext.new[x + 1] = last.ext.old[x + 1]
    /\ \A x \in 0..(Len(last.ext.new) - 1) :
         (x >= last.ext.off + last.ext.keep
            /\ x < last.ext.off + last.ext.room) =>
           last.ext.new[x + 1] = Nil

\* C16 (its case): a reallocation that gave the room that was asked for
C16_Grew ==
  /\ last.ext.valid
  /\ last.ext.grew
  /\ last.ext.inside
  /\ last.ext.room > last.ext.keep
  /\ last.ext.off > 0

\* C17: OP_CALL keeps the frame depth and switches to the first
\* instruction of the procedure in slot 0; it reads an environment only if
\* the procedure has one: then slot 0 becomes the environment's slot 0, and
\* for a bytecode procedure without an environment (LAMBDA without the
\* capture flag) no environment is read and execution goes on
C17_CallEntersProc ==
  (last.op = "CALL" /\ last.callee # 0 /\ ~procs[last.callee].cfunc) =>
    /\ status = "running"
    /\ ci = last.ci0
    /\ Act(St).pc = [ir |-> procs[last.callee].irep, off |-> 1]
    /\ procs[last.callee].env # 0 =>
         Reg(St, 0) = EnvVals(St, envs[procs[last.callee].env])[1]

\* C17 (where it fails): OP_CALL on a bytecode procedure that has no
\* environment
C17_CallWithoutEnv ==
  last.op = "CALL" /\ last.callee # 0 /\ ~procs[last.callee].cfunc
    /\ procs[last.callee].env = 0

\* C18: after unwinding stops at a handler in frame k, the register base
\* is frame k's own base, the one in effect when it executed ONERR, also
\* for a frame entered by SEND with A > 0
C18_HandlerRunsOnOwnBase ==
  (last.raised /\ last.hk >= 0 /\ status = "running") =>
    (stack = last.hbase /\ Act(St).regs = last.hbase)

\* C18 (where it fails): the handler is in a frame that SEND entered with
\* A > 0, and the raise happened in a frame that frame called
C18_HandlerInShiftedFrame ==
  /\ last.raised /\ last.hk > 0 /\ status = "running"
  /\ last.ci0 > last.hk
  /\ last.hbase > 0

\* the ensure procedures called since the last opcode began
Called(h) == {Since(h)[j].p : j \in {n \in 1..Len(Since(h)) :
                                       Since(h)[n].ev = "ecall"}}

\* C19: every ensure procedure a frame registered with EPUSH and has not
\* yet popped is executed when the frame is exited: by RETURN, in any mode,
\* and when exception unwinding pops the frame
C19_EnsuresRunOnExit ==
  /\ (last.op = "RETURN" /\ last.done /\ ~last.raised
        /\ status \in {"running", "returned"}) =>
       last.pend \subseteq Called(last)
  /\ (last.raised /\ status \in {"running", "returned"}) =>
       last.pend \subseteq Called(last)

\* C19 (where it fails): a raise has popped a frame that had a registered
\* ensure procedure
C19_UnwoundPastEnsure ==
  last.raised /\ status \in {"running", "returned"} /\ last.pend # {}

\* ENTER took the under-supplied layout: no error, and the argument count
\* in effect is below len = m1 + o + r + m2
UnderSupplied ==
  /\ last.op = "ENTER" /\ last.enter.valid /\ ~last.raised
  /\ status = "running"
  /\ last.enter.argc
       < last.enter.m1 + last.enter.o + last.enter.r + last.enter.m2

\* C20 as stated: in the under-supplied layout ENTER advances pc by
\* len - argc instructions
C20_SkipsMissingCount ==
  UnderSupplied =>
    Act(St).pc =
      [last.enter.pc0 EXCEPT !.off =
         @ + (last.enter.m1 + last.enter.o + last.enter.r + last.enter.m2
                - last.enter.argc)]

\* C20: in the under-supplied layout ENTER advances pc by
\* argc - m1 - m2 + 1 instructions: over ENTER itself and over one jump for
\* each optional argument that was supplied
C20_SkipsSuppliedOptionals ==
  UnderSupplied =>
    Act(St).pc =
      [last.enter.pc0 EXCEPT !.off =
         @ + (last.enter.argc - last.enter.m1 - last.enter.m2 + 1)]

\* C20 (its case): the under-supplied layout with the optional argument
\* supplied and only the rest argument missing
C20_OptionalSupplied ==
  /\ UnderSupplied
  /\ last.enter.o > 0
  /\ last.enter.argc = last.enter.m1 + last.enter.o + last.enter.m2

\* ENTER completed without raising
Entered ==
  /\ last.op = "ENTER" /\ last.enter.valid /\ ~last.raised
  /\ status = "running"

\* len = m1 + o + r + m2 of the ENTER that ran last
EnterLen == last.enter.m1 + last.enter.o + last.enter.r + last.enter.m2

\* C21: after ENTER completes without raising, regs[len+1] holds the block
\* the caller passed, the value after the last argument in the caller's
\* layout: for inline arguments, for packed arguments (block in regs[2])
\* and for a single array argument that ENTER splats
C21_BlockAfterArgs ==
  Entered => Reg(St, EnterLen + 1) = last.enter.blk

\* C21 (where it fails): ENTER has spread a single array argument of a call
\* that passed a block
C21_SplatWithBlock ==
  Entered /\ last.enter.splat /\ last.enter.blk.tt = "proc"

\* TAILCALL has called a native function that returned without raising
NativeTailReturned ==
  /\ last.op = "TAILCALL" /\ last.tc.valid /\ last.tc.kind = "ret"
  /\ last.tc.snap.valid

\* C22: when TAILCALL resolves to a native procedure that returns without
\* raising, the frame of the TAILCALL alone is left, as by a normal return,
\* and the caller's destination register receives the value the native
\* function returned, whatever the operands A and B of the TAILCALL are
C22_NativeTailcallReturns ==
  NativeTailReturned =>
    /\ status = "running"
    /\ ci = last.tc.snap.depth
    /\ Act(St).pc = last.tc.snap.pc
    /\ stk[last.tc.snap.base + last.tc.snap.a + 1] = last.tc.v

\* C22 (where it fails): the native tail call was made two frames above
\* the host's, and the run goes on after it
C22_TailcallFromInnerMethod ==
  NativeTailReturned /\ last.ci0 = 2 /\ status = "running"

\* C23: if SEND's method lookup fails, the call goes to method_missing
\* with the original symbol as first argument, the original arguments after
\* it in order and the block directly after the last argument; for every
\* C < 127 the new frame's argc is C + 1, never the packed sentinel -1, and
\* for C = 127 the symbol is unshifted into the packed array and argc is -1
C23_MissingDispatch ==
  last.mm.valid =>
    /\ last.mm.mid = Sym.method_missing
    /\ last.mm.seen = <<last.mm.sym>> \o last.mm.orig
    /\ last.mm.c < CALL_MAXARGS => last.mm.argc = last.mm.c + 1
    /\ last.mm.c = CALL_MAXARGS => last.mm.argc = -1

\* C23 (where it fails): a missing method was called with 126 inline
\* arguments
C23_MissingWith126Args ==
  last.mm.valid /\ last.mm.c = CALL_MAXARGS - 1

\* C24: after every completed opcode the working register pointer regs is
\* the current register base in the current allocation of the operand
\* stack, also after the opcodes that re-enter the interpreter or host code
\* that can grow the stack: EPOP, RETURN running ensure procedures, and
\* SEND to a native method
C24_RegsIsStack ==
  (status = "running" /\ last.done) =>
    (Act(St).regs = stack /\ Act(St).rgen = stgen)

\* C24 (where it fails): a SEND to a native method has completed and the
\* operand stack was reallocated meanwhile
C24_NativeGrewStack ==
  /\ status = "running" /\ last.done /\ last.op = "SEND"
  /\ ~last.bytecode /\ ~last.raised
  /\ Act(St).regs = stack /\ Act(St).rgen # stgen

\* C25: RETURN with mode break makes the frame at index proc.env.cioff
\* current and mode return the frame at index cioff - 1; both deliver the
\* value into the acc register and resume at the pc saved in the frame
\* popped last; if cioff < 0 nothing of this happens: a LocalJumpError is
\* put in the exception slot and unwinding starts
C25_NonLocalReturn ==
  (last.op = "RETURN" /\ last.nl.valid /\ last.done /\ ~last.ended) =>
    /\ last.nl.cioff >= 0 =>
         /\ status = "running"
         /\ ~last.raised
         /\ ci = IF last.nl.mode = OP_R_BREAK THEN last.nl.cioff
                 ELSE last.nl.cioff - 1
         /\ Act(St).pc = last.nl.pc
         /\ Reg(St, last.nl.acc) = last.nl.v
    /\ last.nl.cioff < 0 =>
         /\ last.raised
         /\ last.rexc.tt = "exception"
         /\ excs[last.rexc.v].cls = "LocalJumpError"
         /\ excs[last.rexc.v].kind
              = (IF last.nl.mode = OP_R_BREAK THEN "break" ELSE "return")

\* C25 (its cases): a break from a live method, a return from a live
\* method, and a return after the method has returned
C25_BreakDone ==
  /\ last.op = "RETURN" /\ last.nl.valid /\ last.done /\ ~last.ended
  /\ last.nl.mode = OP_R_BREAK /\ last.nl.cioff > 0 /\ status = "running"

C25_ReturnDone ==
  /\ last.op = "RETURN" /\ last.nl.valid /\ last.done /\ ~last.ended
  /\ last.nl.mode = OP_R_RETURN /\ last.nl.cioff > 0 /\ status = "running"

C25_DeadReturn ==
  /\ last.op = "RETURN" /\ last.nl.valid /\ last.nl.cioff < 0

\* C25 (where it fails): a return from a closure whose environment belongs
\* to the frame the host entered
C25_ReturnFromHostFrame ==
  /\ last.op = "RETURN" /\ last.nl.valid
  /\ last.nl.mode = OP_R_RETURN /\ last.nl.cioff = 0

\* C26: after every completed opcode the working procedure and instruction
\* sequence are those of the current frame: the working irep is the irep of
\* ci->proc, and the procedure whose environment RETURN with mode break or
\* return consults is ci->proc, also after TAILCALL and after unwinding to
\* a rescue handler in another frame
C26_WorkingProcIsFrameProc ==
  (status = "running" /\ last.done) =>
    /\ Bytecode(St, CurFr(St).proc)
    /\ Act(St).irep = procs[CurFr(St).proc].irep
    /\ Act(St).proc = CurFr(St).proc

\* C26 (where it fails): unwinding has stopped at a rescue handler of a
\* frame below the one that raised
C26_HandlerInOuterFrame ==
  /\ status = "running" /\ last.done /\ last.raised
  /\ last.hk >= 0 /\ last.hk < last.ci0
  /\ Act(St).irep = procs[CurFr(St).proc].irep
  /\ Act(St).proc # CurFr(St).proc

\* how often the ensure procedure p was called since the opcode of h began
TimesCalled(h, p) ==
  Cardinality({n \in 1..Len(Since(h)) :
                 Since(h)[n].ev = "ecall" /\ Since(h)[n].p = p})

\* the ensure procedures EPOP A takes from the ensure stack of h
Popped(h) ==
  {h.ens0[n] : n \in {m \in 1..Len(h.ens0) :
                         m > h.eidx0 - h.ins.a /\ m <= h.eidx0}}

\* C27: each ensure procedure a frame registered is run exactly once and is
\* the one that was pushed: while RETURN runs the ensure procedures pending
\* above the caller's eidx, or EPOP runs several, an ensure body that
\* itself executes EPUSH does not overwrite an entry still waiting
C27_EachEnsureRunsOnce ==
  /\ (last.op = "RETURN" /\ last.done /\ ~last.raised
        /\ status \in {"running", "returned"}) =>
       \A p \in last.pend : TimesCalled(last, p) = 1
  /\ Completed("EPOP") =>
       \A p \in Popped(last) : TimesCalled(last, p) = 1

\* C27 (where it fails): RETURN had two ensure procedures to run and one of
\* them was never called
C27_PendingEnsureLost ==
  /\ last.op = "RETURN" /\ last.done /\ ~last.raised
  /\ status \in {"running", "returned"}
  /\ Cardinality(last.pend) = 2
  /\ \E p \in last.pend : TimesCalled(last, p) = 0

\* ENTER went past its arity test: it did not raise
EnterPassed ==
  /\ last.op = "ENTER" /\ last.enter.valid /\ ~last.raised
  /\ status \in {"running", "undefined"}

\* C28: for every argument shape with which ENTER does not raise, also a
\* lenient procedure that receives fewer than m1 + m2 arguments, the copy
\* count argc - m2 and the source index argc - m2 are not negative and pc
\* advances by at least one instruction
C28_EnterCopiesAndAdvances ==
  EnterPassed =>
    /\ last.enter.argc - last.enter.m2 >= 0
    /\ status = "running"
    /\ Act(St).pc.ir = last.enter.pc0.ir
    /\ Act(St).pc.off >= last.enter.pc0.off + 1

\* C28 (where it fails): a lenient procedure received fewer than m1 + m2
\* arguments and ENTER did not raise
C28_LenientUnderRequired ==
  /\ EnterPassed /\ ~last.enter.strict
  /\ last.enter.argc < last.enter.m1 + last.enter.m2

\* the opcode that ran last raised inside a nested run and a rescue
\* handler was resumed in that run
NestedHandled ==
  /\ last.raised /\ last.hk >= 0 /\ last.depth0 > 1
  /\ status = "running" /\ Len(runs) = last.depth0

\* entry n of the history is the end of a nested run by a raise that found
\* no handler
NestedUnhandled(n) ==
  /\ n > 1 /\ log[n].ev = "end" /\ ~log[n].host
  /\ log[n - 1].ev = "raise" /\ log[n - 1].depth = log[n].depth + 1

\* C29: a raise inside a nested run (entered through funcall, yield or an
\* ensure call; its entry frame has acc = -1) never pops frames below the
\* entry frame of that run and never resumes, inside the nested run, a
\* rescue handler of a frame of an outer run
C29_RaiseStaysInNestedRun ==
  /\ NestedHandled => ci >= Act(St).eci
  /\ \A n \in 1..Len(log) : NestedUnhandled(n) => log[n].ci >= log[n].eci - 1

\* C29 (where it fails): a raise in a nested run has resumed the handler of
\* a frame below the run's entry frame
C29_OuterHandlerInNestedRun ==
  NestedHandled /\ last.hk < Act(St).eci /\ ci = last.hk

\* irep->nregs of the procedure the current frame executes
FrameRegs == irep_tab[procs[CurFr(St).proc].irep].nregs

\* an opcode is about to be fetched in a frame that executes bytecode
InBytecodeFrame ==
  /\ status = "running" /\ runs # <<>>
  /\ ci >= 0 /\ Bytecode(St, CurFr(St).proc)

\* C30: every register the current bytecode frame may address, 0 to
\* irep->nregs - 1 from its register base, lies inside the operand stack
\* [stbase, stend): for frames set up by SEND, CALL and TAILCALL, for the
\* frame in which the host enters the run, and for the frames ecall sets up
\* for ensure procedures
C30_RegistersInsideStack ==
  InBytecodeFrame => (stack >= 0 /\ stack + FrameRegs <= Len(stk))

\* C30 (where it fails): the frame of an ensure procedure reaches beyond
\* the end of the operand stack
C30_EnsureFrameBeyondStack ==
  /\ InBytecodeFrame /\ Act(St).via \in {"epop", "ret"}
  /\ CurFr(St).acc = -1
  /\ stack + FrameRegs > Len(stk)

\* a frame is executing bytecode
Executing ==
  /\ status = "running" /\ runs # <<>> /\ ci >= 0
  /\ Act(St).irep \in 1..Len(irep_tab)

\* irep->nregs of the irep the interpreter is executing
WorkingRegs == irep_tab[Act(St).irep].nregs

\* a run entered through funcall, yield or ecall is at its entry frame
AtNestedEntry ==
  /\ Executing /\ Len(runs) > 1 /\ ci = Act(St).eci /\ ci > 0

\* C31: for every frame executing bytecode the frame's nregs is at least
\* the register count of the irep it executes, after SEND, CALL, EXEC and
\* TAILCALL alike, so that a frame which funcall, yield or ecall places at
\* register base + nregs starts above the registers of the frame below it
C31_FrameCoversIrepRegisters ==
  /\ Executing => CurFr(St).nregs >= WorkingRegs
  /\ AtNestedEntry =>
       stack >= CurFr(St).stackidx
                  + irep_tab[runs[Len(runs) - 1].irep].nregs

\* C31 (where it fails): after EXEC the frame's nregs is below the
\* register count of the body
C31_ExecFrameTooSmall ==
  /\ Executing /\ last.op = "EXEC" /\ last.done
  /\ CurFr(St).nregs < WorkingRegs

====
